---- MODULE Spec2Model ----
(***************************************************************************)
(* ccGains: the bag engine (ccgains/bags.py, class BagFIFO) as a state     *)
(* machine.  The engine's fields are the variables; each public method     *)
(* (process_trade, buy_with_base_currency, withdraw, deposit, pay) is an   *)
(* operator from an engine state to an outcome (the state the call leaves  *)
(* behind, the exception it raised if any, its return value), and an       *)
(* action applies it.                                                      *)
(*                                                                         *)
(* Numbers.  Amounts of currency are whole numbers of the smallest unit    *)
(* (the engine only adds, subtracts and compares them).  Costs, prices,    *)
(* rates, fee ratios, proceeds and profits are exact rationals <<n, d>> in *)
(* lowest terms with d > 0: decimal.Decimal without its 28-digit rounding. *)
(*                                                                         *)
(* Time.  A datetime is a whole number of ticks since the epoch            *)
(* (pd.Timestamp(0)); a calendar year is YearLen ticks long.               *)
(***************************************************************************)
EXTENDS Integers, Sequences, FiniteSets, TLC

VARIABLES
    bags,              \* self.bags: exchange -> list of bags
    in_transit,        \* self.in_transit: currency -> list of bags
    totals,            \* self.totals: exchange or "in_transit" -> currency -> amount
    profit,            \* self.profit: year -> profit
    report,            \* self.report.data: list of PaymentReport
    last_date,         \* self._last_date
    num_created_bags,  \* self.num_created_bags
    dump_file,         \* self.dump_file is set (TRUE) or None (FALSE)
    call,              \* the last call made on the engine and its outcome
    trading,           \* the locals of the tests' trading_set while it runs
    bf2,               \* a second engine, for load (test_saving_loading)
    relation,          \* the CurrencyRelation: its direct pairs and recipes
    tlist              \* TradeHistory.tlist: the sorted list of trades

vars == <<bags, in_transit, totals, profit, report, last_date,
          num_created_bags, dump_file, call, trading, bf2, relation, tlist>>

-----------------------------------------------------------------------------
(* Bounds of the model *)

\* datetimes run from 0 to MaxTime
MaxTime == 2
\* ticks per calendar year
YearLen == 2
\* the number of calls made on one engine
MaxCalls == 4
\* the largest budget and the largest amount received in a trade of
\* trading_set
MaxAmount == 3
\* the number of trades of one run of test_saving_loading
MaxResume == 5
\* the number of calls of one ledger
MaxLedger == 4
\* the number of calls of one run of transfers between two exchanges
MaxTransfer == 5
\* the number of trades handed to the dispatcher of process_trade in one run
MaxDispatch == 1
\* the number of trades of one run of purchases and sales
MaxSale == 3
\* the significant digits that an operation on Decimals keeps (the context's
\* precision, 28 in the program)
Precision == 3
\* the largest amount of a sale whose proceeds are computed with that
\* precision
MaxValue == 5
\* the longest list of trades of a TradeHistory
MaxHistory == 3
\* the longest run of transfers and purchases of two currencies
MaxSplit == 4
\* the longest list of bags in a saved file
MaxBags == 3
\* the number of direct pairs given to a CurrencyRelation
MaxPairs == 4
\* the number of trades of one trading_set
MaxTrades == 3

-----------------------------------------------------------------------------
(* decimal.Decimal as exact rationals *)

Abs(n) == IF n < 0 THEN -n ELSE n

RECURSIVE GCD(_, _)
GCD(a, b) == IF b = 0 THEN a ELSE GCD(b, a % b)

\* the rational n/d (d # 0) in lowest terms with a positive denominator
Frac(n, d) ==
    LET g == GCD(Abs(n), Abs(d))
        s == IF d < 0 THEN -1 ELSE 1
    IN  <<(s * n) \div g, Abs(d) \div g>>

\* Decimal(n) of a whole number
Decimal(n) == <<n, 1>>

DAdd(a, b) == Frac(a[1] * b[2] + b[1] * a[2], a[2] * b[2])
DSub(a, b) == Frac(a[1] * b[2] - b[1] * a[2], a[2] * b[2])
DMul(a, b) == Frac(a[1] * b[1], a[2] * b[2])
\* a / b; the caller has checked b # 0 (Decimal raises otherwise)
DDiv(a, b) == Frac(a[1] * b[2], a[2] * b[1])
DLt(a, b) == a[1] * b[2] < b[1] * a[2]
DLe(a, b) == a[1] * b[2] <= b[1] * a[2]
DZero == Decimal(0)
DOne == Decimal(1)

-----------------------------------------------------------------------------
(* Python dicts as functions whose domain is the set of keys *)

EmptyDict == [k \in {} |-> 0]
Has(d, k) == k \in DOMAIN d
Get(d, k, default) == IF k \in DOMAIN d THEN d[k] ELSE default
Put(d, k, v) == [x \in (DOMAIN d) \cup {k} |-> IF x = k THEN v ELSE d[x]]
Del(d, k) == [x \in (DOMAIN d) \ {k} |-> d[x]]

\* del lst[i]
DelAt(lst, i) == SubSeq(lst, 1, i - 1) \o SubSeq(lst, i + 1, Len(lst))

-----------------------------------------------------------------------------
(* Names *)

\* the base currency the engine is configured with (self.currency)
BaseCurrency == "EUR"
\* the currencies that are traded
Currencies == {"BTC", "XMR"}
\* a currency that is not the engine's base currency, as cost currency
OtherCurrency == "USD"

\* str.capitalize() on the exchange names that occur
capitalize(name) ==
    CASE name = "exa" -> "Exa"
      [] name = "Exa" -> "Exa"
      [] name = "exb" -> "Exb"
      [] name = "Exb" -> "Exb"
      [] name = "poloniex" -> "Poloniex"
      [] OTHER -> name

\* str.upper() on the strings that occur
upper(s) ==
    CASE s = "Trade" -> "TRADE"
      [] s = "Payment" -> "PAYMENT"
      [] s = "payment" -> "PAYMENT"
      [] s = "Distribution" -> "DISTRIBUTION"
      [] s = "Withdrawal" -> "WITHDRAWAL"
      [] s = "withdrawal" -> "WITHDRAWAL"
      [] s = "Deposit" -> "DEPOSIT"
      [] OTHER -> s

-----------------------------------------------------------------------------
(* Time *)

\* dtime.year, counted from the epoch's year
YearOf(dtime) == dtime \div YearLen

\* relativedelta(tdate, adate).years: whole years from adate to tdate,
\* truncated towards zero
relativedelta_years(tdate, adate) ==
    IF tdate >= adate THEN (tdate - adate) \div YearLen
    ELSE -((adate - tdate) \div YearLen)

\* is_short_term with "<= 1" for "< 1": a bag held for exactly one year still
\* counts as short term
is_short_term_Inclusive(adate, tdate) ==
    Abs(relativedelta_years(tdate, adate)) <= 1

is_short_term(adate, tdate) == Abs(relativedelta_years(tdate, adate)) < 1

-----------------------------------------------------------------------------
(* class Bag *)

\* Bag.__init__ with price=None: price = cost / amount
Bag(id, dtime, currency, amount, cost_currency, cost) ==
    [id |-> id, dtime |-> dtime, currency |-> upper(currency),
     amount |-> amount, cost_currency |-> upper(cost_currency),
     cost |-> cost, price |-> DDiv(cost, Decimal(amount))]

\* a spend that takes the value off at the price of a whole unit, whatever
\* the bag's own price
spend_UnitPrice(bag, amount) ==
    IF amount >= bag.amount
    THEN [bag |-> [bag EXCEPT !.amount = 0, !.cost = DZero],
          spent |-> bag.amount, bcost |-> bag.cost,
          remainder |-> amount - bag.amount]
    ELSE LET value == DMul(Decimal(amount), DOne)
         IN  [bag |-> [bag EXCEPT !.amount = bag.amount - amount,
                                  !.cost = DSub(bag.cost, value)],
              spent |-> amount, bcost |-> value, remainder |-> 0]

\* Bag.spend: the bag afterwards and the tuple (spent, bcost, remainder)
spend(bag, amount) ==
    IF amount >= bag.amount
    THEN [bag |-> [bag EXCEPT !.amount = 0, !.cost = DZero],
          spent |-> bag.amount, bcost |-> bag.cost,
          remainder |-> amount - bag.amount]
    ELSE LET value == DMul(Decimal(amount), bag.price)
         IN  [bag |-> [bag EXCEPT !.amount = bag.amount - amount,
                                  !.cost = DSub(bag.cost, value)],
              spent |-> amount, bcost |-> value, remainder |-> 0]

is_empty(bag) == bag.amount = 0

-----------------------------------------------------------------------------
(* The outcome of a call: the engine afterwards, the exception that left   *)
(* it (exc = "" when it returned), its return value, and whether _abort    *)
(* wrote the snapshot file.                                                *)

None == <<>>

Ok(self, ret) ==
    [self |-> self, exc |-> "", msg |-> "", ret |-> ret, saved |-> FALSE]

Raise(self, exc, msg) ==
    [self |-> self, exc |-> exc, msg |-> msg, ret |-> None, saved |-> FALSE]

\* BagFIFO._abort: self.save(self.dump_file), then raise ValueError(msg).
\* With dump_file None, save() calls open(None, 'w'), which raises TypeError
\* before the ValueError is reached.
_abort(self, msg) ==
    IF self.dump_file
    THEN [self |-> self, exc |-> "ValueError", msg |-> msg, ret |-> None,
          saved |-> TRUE]
    ELSE Raise(self, "TypeError", "open(None)")

\* _check_order without its comparison: every dtime becomes last_date
_check_order_Unchecked(self, dtime) ==
    Ok([self EXCEPT !.last_date = dtime], None)

\* BagFIFO._check_order (datetimes carry their timezone; they are instants,
\* which tz_convert('UTC') leaves as they are)
_check_order(self, dtime) ==
    IF dtime < self.last_date
    THEN _abort(self, "order")
    ELSE Ok([self EXCEPT !.last_date = dtime], None)

\* _add_profit with "=" for "+=": the year's profit is overwritten
_add_profit_Overwrite(self, dtime, prof) ==
    [self EXCEPT !.profit = Put(self.profit, YearOf(dtime), prof)]

\* BagFIFO._add_profit
_add_profit(self, dtime, prof) ==
    LET year == YearOf(dtime)
    IN  [self EXCEPT !.profit =
            Put(self.profit, year, DAdd(Get(self.profit, year, DZero), prof))]

-----------------------------------------------------------------------------
(* self.relation, the CurrencyRelation the engine was given: BTC and BNB   *)
(* have a price in the base currency at every time, XMR from time 1 on;    *)
(* the rate between two priced currencies is the quotient of their prices. *)

\* the price of one unit of a currency in the base currency at dtime, when
\* the relation's data holds one
Priced(dtime, currency) ==
    \/ currency \in {BaseCurrency, "BTC", "BNB"}
    \/ currency = "XMR" /\ dtime >= 1

PriceInBase(dtime, currency) ==
    CASE currency = "BTC" -> Decimal(dtime + 2)
      [] currency = "XMR" -> Frac(1, 2)
      [] OTHER -> DOne

\* whether relation.get_rate(dtime, from, to) finds a recipe and a sample
\* (it raises KeyError otherwise)
has_rate(dtime, from_currency, to_currency) ==
    /\ from_currency # to_currency
    /\ Priced(dtime, from_currency)
    /\ Priced(dtime, to_currency)

\* relation.get_rate(dtime, from_currency, to_currency)
get_rate(dtime, from_currency, to_currency) ==
    DDiv(PriceInBase(dtime, from_currency), PriceInBase(dtime, to_currency))

-----------------------------------------------------------------------------
(* The methods of BagFIFO are written as chains of steps: each step is an  *)
(* operator that receives what the steps before it computed (the outcome   *)
(* chk of _check_order, the engine s1, s2, ... after each statement) and   *)
(* does the next statements of the method.                                 *)

\* "prof, _ = self.pay(...); self._add_profit(dtime, prof)"
AddPaidProfit(paid, dtime) ==
    IF paid.exc # "" THEN paid
    ELSE Ok(_add_profit(paid.self, dtime, paid.ret[1]), None)

-----------------------------------------------------------------------------
(* BagFIFO.buy_with_base_currency *)

\* buy_with_base_currency after its call of _check_order
BuyChecked(chk, dtime, amount, currency, cost, ex) ==
    LET s1 == chk.self
        lst == Get(s1.bags, ex, <<>>)
        bag == Bag(s1.num_created_bags + 1, dtime, currency, amount,
                   s1.currency, cost)
        tot == Get(Get(s1.totals, ex, EmptyDict), currency, 0)
    IN  IF chk.exc # "" THEN chk
        ELSE IF amount <= 0 THEN Ok(s1, None)
        ELSE IF currency = s1.currency THEN _abort(s1, "buy base currency")
        ELSE Ok([s1 EXCEPT
                    !.bags = Put(s1.bags, ex, Append(lst, bag)),
                    !.num_created_bags = s1.num_created_bags + 1,
                    !.totals = Put(s1.totals, ex,
                        Put(Get(s1.totals, ex, EmptyDict), currency,
                            tot + amount))],
                None)

buy_with_base_currency(self, dtime, amount, currency, cost, exchange) ==
    BuyChecked(_check_order(self, dtime), dtime, amount, currency, cost,
               capitalize(exchange))

-----------------------------------------------------------------------------
(* BagFIFO.pay *)

\* reports.PaymentReport
PaymentReport(kind, exchange, sell_date, currency, to_pay, fee_ratio, bag_date, bag_amount, bag_spent, cost_currency, spent_cost, short_term, ex_rate, proceeds, prof, buy_currency, buy_ratio) ==
    [kind |-> kind, exchange |-> exchange, sell_date |-> sell_date,
     currency |-> currency, to_pay |-> to_pay, fee_ratio |-> fee_ratio,
     bag_date |-> bag_date, bag_amount |-> bag_amount,
     bag_spent |-> bag_spent, cost_currency |-> cost_currency,
     spent_cost |-> spent_cost, short_term |-> short_term,
     ex_rate |-> ex_rate, proceeds |-> proceeds, profit |-> prof,
     buy_currency |-> buy_currency, buy_ratio |-> buy_ratio]

\* repinfo: the default dict updated with report_info
RepInfo(report_info) ==
    LET default == [kind |-> "payment", buy_currency |-> "",
                    buy_ratio |-> DZero]
        merged == [k \in DOMAIN default |->
                      IF k \in DOMAIN report_info THEN report_info[k]
                      ELSE default[k]]
    IN  IF merged.buy_currency = ""
        THEN [merged EXCEPT !.buy_ratio = DZero]
        ELSE merged

\* a search for the newest bag of the currency instead of the next one
NextFitting_Newest(lst, i, currency) ==
    LET fit == {j \in i..Len(lst) : lst[j].currency = currency}
    IN  IF i > Len(lst) THEN [status |-> "IndexError", i |-> i]
        ELSE IF fit = {} THEN [status |-> "end", i |-> Len(lst) + 1]
        ELSE [status |-> "found",
              i |-> CHOOSE j \in fit : \A k \in fit : k <= j]

\* the inner loop "while lst[i].currency != currency" of pay and of
\* _move_bags, from position i on (lists are numbered from 1 here): the
\* position of the next bag of the currency ("found"), the end of the list
\* was reached while skipping ("end"), or lst[i] does not exist
\* ("IndexError")
RECURSIVE NextFitting(_, _, _)
NextFitting(lst, i, currency) ==
    IF i > Len(lst) THEN [status |-> "IndexError", i |-> i]
    ELSE IF lst[i].currency = currency THEN [status |-> "found", i |-> i]
    ELSE IF i + 1 = Len(lst) + 1 THEN [status |-> "end", i |-> i + 1]
    ELSE NextFitting(lst, i + 1, currency)

\* a pass of pay's loop that reports the amount left in the bag after the
\* spend as the bag's amount
PaySpend_AmountAfter(st, i, bag, sp, thisproc, short_term, exchange, dtime, currency, fee_ratio, rate, repinfo) ==
    LET corrproc == DMul(thisproc, DSub(DOne, fee_ratio))
        entry == PaymentReport(
            repinfo.kind, exchange, dtime, currency, st.to_pay,
            fee_ratio, bag.dtime, sp.bag.amount, sp.spent,
            bag.cost_currency, sp.bcost, short_term, rate, corrproc,
            DSub(corrproc, sp.bcost), repinfo.buy_currency,
            repinfo.buy_ratio)
    IN  [st EXCEPT
            !.lst = IF is_empty(sp.bag) THEN DelAt(st.lst, i)
                    ELSE [st.lst EXCEPT ![i] = sp.bag],
            !.i = IF is_empty(sp.bag) THEN i ELSE i + 1,
            !.to_pay = sp.remainder,
            !.report = Append(st.report, entry),
            !.proc = DAdd(st.proc, thisproc),
            !.cost = DAdd(st.cost, sp.bcost),
            !.st_proc = IF short_term THEN DAdd(st.st_proc, thisproc)
                        ELSE st.st_proc,
            !.st_cost = IF short_term THEN DAdd(st.st_cost, sp.bcost)
                        ELSE st.st_cost]

\* one pass of the loop "while to_pay > 0" of pay, from "bag =
\* self.bags[exchange][i]" on: the loop's state after bag i was spent with
\* outcome sp. st is the loop's state: the bag list of the exchange, the
\* ledger, the index i, to_pay and the four sums.
PaySpend(st, i, bag, sp, thisproc, short_term, exchange, dtime, currency, fee_ratio, rate, repinfo) ==
    LET corrproc == DMul(thisproc, DSub(DOne, fee_ratio))
        entry == PaymentReport(
            repinfo.kind, exchange, dtime, currency, st.to_pay,
            fee_ratio, bag.dtime, sp.bag.amount + sp.spent, sp.spent,
            bag.cost_currency, sp.bcost, short_term, rate, corrproc,
            DSub(corrproc, sp.bcost), repinfo.buy_currency,
            repinfo.buy_ratio)
    IN  [st EXCEPT
            !.lst = IF is_empty(sp.bag) THEN DelAt(st.lst, i)
                    ELSE [st.lst EXCEPT ![i] = sp.bag],
            !.i = IF is_empty(sp.bag) THEN i ELSE i + 1,
            !.to_pay = sp.remainder,
            !.report = Append(st.report, entry),
            !.proc = DAdd(st.proc, thisproc),
            !.cost = DAdd(st.cost, sp.bcost),
            !.st_proc = IF short_term THEN DAdd(st.st_proc, thisproc)
                        ELSE st.st_proc,
            !.st_cost = IF short_term THEN DAdd(st.st_cost, sp.bcost)
                        ELSE st.st_cost]

\* one pass of the loop after the inner loop found (or did not find) the
\* next bag
PayFound(st, nf, exchange, dtime, currency, fee_ratio, rate, repinfo) ==
    IF nf.status = "IndexError" THEN [st EXCEPT !.exc = "IndexError"]
    ELSE IF nf.status = "end" THEN [st EXCEPT !.exc = "Exception"]
    ELSE PaySpend(st, nf.i, st.lst[nf.i], spend(st.lst[nf.i], st.to_pay),
                  DMul(Decimal(spend(st.lst[nf.i], st.to_pay).spent), rate),
                  is_short_term(st.lst[nf.i].dtime, dtime),
                  exchange, dtime, currency, fee_ratio, rate, repinfo)

\* the loop "while to_pay > 0" of pay
RECURSIVE PayLoop(_, _, _, _, _, _, _)
PayLoop(st, exchange, dtime, currency, fee_ratio, rate, repinfo) ==
    IF st.to_pay <= 0 \/ st.exc # "" THEN st
    ELSE PayLoop(PayFound(st, NextFitting(st.lst, st.i, currency), exchange,
                          dtime, currency, fee_ratio, rate, repinfo),
                 exchange, dtime, currency, fee_ratio, rate, repinfo)

\* a clean-up that books the payment on the row of the funds in transit as
\* well as on the exchange
PayCleanUp_InTransit(self, exchange, currency, total, amount) ==
    LET t1 == Put(self.totals[exchange], currency, total - amount)
        tr == Get(self.totals, "in_transit", EmptyDict)
    IN  [self EXCEPT !.totals =
             Put(Put(self.totals, exchange, t1), "in_transit",
                 Put(tr, currency, total - amount))]

\* "update and clean up totals" at the end of pay
PayCleanUp(self, exchange, currency, total, amount) ==
    IF total - amount = 0
    THEN LET t1 == Del(self.totals[exchange], currency)
             tt == IF t1 = EmptyDict THEN Del(self.totals, exchange)
                   ELSE Put(self.totals, exchange, t1)
             bb == IF self.bags[exchange] = <<>> THEN Del(self.bags, exchange)
                   ELSE self.bags
         IN  [self EXCEPT !.totals = tt, !.bags = bb]
    ELSE [self EXCEPT !.totals =
             Put(self.totals, exchange,
                 Put(self.totals[exchange], currency, total - amount))]

\* a return value of pay without the fee correction
PayReturn_Gross(st, fee_ratio) ==
    <<DSub(st.st_proc, st.st_cost), st.proc>>

\* a return value of pay that takes off the cost of all bags spent, held
\* for long or not
PayReturn_FullCost(st, fee_ratio) ==
    <<DSub(DMul(st.st_proc, DSub(DOne, fee_ratio)), st.cost),
      DMul(st.proc, DSub(DOne, fee_ratio))>>

\* the return value of pay: (short_term_profit, total_proceeds)
PayReturn(st, fee_ratio) ==
    <<DSub(DMul(st.st_proc, DSub(DOne, fee_ratio)), st.st_cost),
      DMul(st.proc, DSub(DOne, fee_ratio))>>

\* pay after its loop ended with state st
PayPaid(s1, st, ex, currency, total, amount, fee_ratio) ==
    LET s2 == [s1 EXCEPT !.bags = Put(s1.bags, ex, st.lst),
                         !.report = st.report]
    IN  IF st.exc # "" THEN Raise(s2, st.exc, "no bags left")
        ELSE Ok(PayCleanUp(s2, ex, currency, total, amount),
                PayReturn(st, fee_ratio))

\* pay after its call of _check_order
PayChecked(chk, dtime, currency, amount, ex, fee_ratio, custom_rate, report_info) ==
    LET s1 == chk.self
        total == Get(Get(s1.totals, ex, EmptyDict), currency, 0)
        rate == IF custom_rate # None THEN custom_rate
                ELSE get_rate(dtime, currency, s1.currency)
        st0 == [lst |-> s1.bags[ex], report |-> s1.report, i |-> 1,
                to_pay |-> amount, exc |-> "",
                cost |-> DZero, st_cost |-> DZero,
                proc |-> DZero, st_proc |-> DZero]
    IN  IF chk.exc # "" THEN chk
        ELSE IF amount <= 0 THEN Ok(s1, None)
        ELSE IF currency = s1.currency THEN _abort(s1, "pay base currency")
        ELSE IF ~Has(s1.bags, ex) \/ s1.bags[ex] = <<>>
            THEN _abort(s1, "no funds on exchange")
        ELSE IF DLt(fee_ratio, DZero) \/ DLt(DOne, fee_ratio)
            THEN _abort(s1, "fee ratio")
        ELSE IF amount > total THEN _abort(s1, "insufficient")
        ELSE IF custom_rate = None /\ ~has_rate(dtime, currency, s1.currency)
            THEN _abort(s1, "no rate")
        ELSE PayPaid(s1, PayLoop(st0, ex, dtime, currency, fee_ratio, rate,
                                 RepInfo(report_info)),
                     ex, currency, total, amount, fee_ratio)

pay(self, dtime, currency, amount, exchange, fee_ratio, custom_rate, report_info) ==
    PayChecked(_check_order(self, dtime), dtime, currency, amount,
               capitalize(exchange), fee_ratio, custom_rate, report_info)

-----------------------------------------------------------------------------
(* BagFIFO._move_bags *)

\* "move complete bag": the loop's state after bag i of src went to dest
MoveWhole(st, i, bag) ==
    [st EXCEPT !.dest = Append(st.dest, bag),
               !.src = DelAt(st.src, i),
               !.i = i,
               !.to_move = st.to_move - bag.amount,
               !.done = (i = Len(st.src))]

\* a split whose new bag is dated by its creation: it takes the date of the
\* newest bag of dest instead of the date of the bag it was taken from
MoveSplit_NewDate(st, i, bag, sp) ==
    [st EXCEPT !.src = [st.src EXCEPT ![i] = sp.bag],
               !.dest = Append(st.dest,
                               Bag(st.num + 1,
                                   IF st.dest = <<>> THEN bag.dtime + 1
                                   ELSE st.dest[Len(st.dest)].dtime + 1,
                                   bag.currency,
                                   sp.spent, bag.cost_currency, sp.bcost)),
               !.i = i,
               !.num = st.num + 1,
               !.to_move = st.to_move - sp.spent]

\* a split that hands the new bag the whole cost of the bag it was taken
\* from instead of the cost of the amount spent
MoveSplit_WholeCost(st, i, bag, sp) ==
    [st EXCEPT !.src = [st.src EXCEPT ![i] = sp.bag],
               !.dest = Append(st.dest,
                               Bag(st.num + 1, bag.dtime, bag.currency,
                                   sp.spent, bag.cost_currency, bag.cost)),
               !.i = i,
               !.num = st.num + 1,
               !.to_move = st.to_move - sp.spent]

\* "we need to split the bag": the loop's state after bag i of src was
\* spent with outcome sp and a new bag with the amount spent went to dest
MoveSplit(st, i, bag, sp) ==
    [st EXCEPT !.src = [st.src EXCEPT ![i] = sp.bag],
               !.dest = Append(st.dest,
                               Bag(st.num + 1, bag.dtime, bag.currency,
                                   sp.spent, bag.cost_currency, sp.bcost)),
               !.i = i,
               !.num = st.num + 1,
               !.to_move = st.to_move - sp.spent]

\* one pass of the loop of _move_bags after its inner loop. done: the loop
\* was left by "return to_move".
MoveFound(st, nf) ==
    IF nf.status = "IndexError"
    THEN [st EXCEPT !.exc = "IndexError", !.done = TRUE]
    ELSE IF nf.status = "end" THEN [st EXCEPT !.done = TRUE]
    ELSE IF st.src[nf.i].amount <= st.to_move
    THEN MoveWhole(st, nf.i, st.src[nf.i])
    ELSE MoveSplit(st, nf.i, st.src[nf.i],
                   spend(st.src[nf.i], st.to_move))

\* the loop "while to_move > 0" of _move_bags. st: the lists src and dest,
\* the index i, to_move, self.num_created_bags, and exc ("IndexError" when
\* src[i] does not exist)
RECURSIVE MoveLoop(_, _)
MoveLoop(st, currency) ==
    IF st.to_move <= 0 \/ st.done THEN st
    ELSE MoveLoop(MoveFound(st, NextFitting(st.src, st.i, currency)),
                  currency)

\* _move_bags(src, dest, amount, currency): the lists and the bag counter
\* afterwards, and the returned remainder (to_move)
_move_bags(src, dest, num_created, amount, currency) ==
    MoveLoop([src |-> src, dest |-> dest, i |-> 1, to_move |-> amount,
              num |-> num_created, exc |-> "", done |-> FALSE], currency)

-----------------------------------------------------------------------------
(* BagFIFO.withdraw *)

\* a clean-up of withdraw that adds the whole amount, fee included, to the
\* total in transit
WithdrawCleanUp_FeeInTransit(self, exchange, currency, total, amount, fee) ==
    LET t1 == Del(self.totals[exchange], currency)
        tt == IF t1 = EmptyDict THEN Del(self.totals, exchange)
              ELSE Put(self.totals, exchange, t1)
        bb == IF self.bags[exchange] = <<>> THEN Del(self.bags, exchange)
              ELSE self.bags
        s1 == IF total - amount = 0
              THEN [self EXCEPT !.totals = tt, !.bags = bb]
              ELSE [self EXCEPT !.totals =
                       Put(self.totals, exchange,
                           Put(self.totals[exchange], currency,
                               total - amount))]
        tr == Get(s1.totals, "in_transit", EmptyDict)
    IN  IF ~Has(self.totals, exchange)
           \/ (total - amount = 0 /\ ~Has(self.totals[exchange], currency))
        THEN Raise(self, "KeyError", "totals")
        ELSE Ok([s1 EXCEPT !.totals =
                    Put(s1.totals, "in_transit",
                        Put(tr, currency, Get(tr, currency, 0) + amount))],
                None)

\* "update and clean up totals" at the end of withdraw; total was read
\* before the fee was paid
WithdrawCleanUp(self, exchange, currency, total, amount, fee) ==
    LET t1 == Del(self.totals[exchange], currency)
        tt == IF t1 = EmptyDict THEN Del(self.totals, exchange)
              ELSE Put(self.totals, exchange, t1)
        bb == IF self.bags[exchange] = <<>> THEN Del(self.bags, exchange)
              ELSE self.bags
        s1 == IF total - amount = 0
              THEN [self EXCEPT !.totals = tt, !.bags = bb]
              ELSE [self EXCEPT !.totals =
                       Put(self.totals, exchange,
                           Put(self.totals[exchange], currency,
                               total - amount))]
        tr == Get(s1.totals, "in_transit", EmptyDict)
    IN  IF ~Has(self.totals, exchange)
           \/ (total - amount = 0 /\ ~Has(self.totals[exchange], currency))
        THEN Raise(self, "KeyError", "totals")
        ELSE Ok([s1 EXCEPT !.totals =
                    Put(s1.totals, "in_transit",
                        Put(tr, currency,
                            Get(tr, currency, 0) + amount - fee))],
                None)

\* withdraw after its call of _move_bags, which left the lists mv.src and
\* mv.dest and returned mv.to_move
WithdrawMoved(s3, mv, ex, currency, total, amount, fee) ==
    LET s4 == [s3 EXCEPT !.bags = Put(s3.bags, ex, mv.src),
                         !.in_transit = Put(s3.in_transit, currency, mv.dest),
                         !.num_created_bags = mv.num]
    IN  IF mv.exc # "" THEN Raise(s4, mv.exc, "move")
        ELSE IF mv.to_move # 0 THEN Raise(s4, "Exception", "no bags left")
        ELSE WithdrawCleanUp(s4, ex, currency, total, amount, fee)

\* a withdraw that moves the whole amount to in_transit after the fee was
\* paid from the exchange
WithdrawMove_WholeAmount(s3, ex, currency, total, amount, fee) ==
    IF ~Has(s3.bags, ex) THEN Raise(s3, "KeyError", "bags")
    ELSE WithdrawMoved(s3,
             _move_bags(s3.bags[ex], s3.in_transit[currency],
                        s3.num_created_bags, amount, currency),
             ex, currency, total, amount, fee)

\* withdraw from "self._move_bags(self.bags[exchange], ...)" on; s3 is the
\* engine with an in_transit list for the currency
WithdrawMove(s3, ex, currency, total, amount, fee) ==
    IF ~Has(s3.bags, ex) THEN Raise(s3, "KeyError", "bags")
    ELSE WithdrawMoved(s3,
             _move_bags(s3.bags[ex], s3.in_transit[currency],
                        s3.num_created_bags, amount - fee, currency),
             ex, currency, total, amount, fee)

\* withdraw after the fee was paid and its profit added (paid is the
\* outcome of that, or the engine as it was when there is no fee)
WithdrawFeePaid(paid, ex, currency, total, amount, fee) ==
    IF paid.exc # "" THEN paid
    ELSE WithdrawMove(
             IF Has(paid.self.in_transit, currency) THEN paid.self
             ELSE [paid.self EXCEPT
                      !.in_transit = Put(paid.self.in_transit, currency,
                                         <<>>)],
             ex, currency, total, amount, fee)

\* withdraw after its call of _check_order
WithdrawChecked(chk, dtime, currency, amount, fee, ex) ==
    LET s1 == chk.self
        total == Get(Get(s1.totals, ex, EmptyDict), currency, 0)
    IN  IF chk.exc # "" THEN chk
        ELSE IF amount <= 0 THEN Ok(s1, None)
        ELSE IF currency = s1.currency
            THEN _abort(s1, "withdraw base currency")
        ELSE IF amount > total THEN _abort(s1, "insufficient")
        ELSE WithdrawFeePaid(
                 IF fee > 0
                 THEN AddPaidProfit(
                          pay(s1, dtime, currency, fee, ex, DOne, None,
                              [kind |-> "withdrawal fee"]), dtime)
                 ELSE Ok(s1, None),
                 ex, currency, total, amount, fee)

withdraw(self, dtime, currency, amount, fee, exchange) ==
    WithdrawChecked(_check_order(self, dtime), dtime, currency, amount, fee,
                    capitalize(exchange))

-----------------------------------------------------------------------------
(* BagFIFO.deposit *)

\* list.sort(key=attrgetter('dtime')): a stable sort by dtime
RECURSIVE InsertByDtime(_, _)
InsertByDtime(sorted, bag) ==
    IF sorted = <<>> THEN <<bag>>
    ELSE IF sorted[Len(sorted)].dtime <= bag.dtime THEN Append(sorted, bag)
    ELSE Append(InsertByDtime(SubSeq(sorted, 1, Len(sorted) - 1), bag),
                sorted[Len(sorted)])

RECURSIVE SortByDtime(_)
SortByDtime(lst) ==
    IF lst = <<>> THEN <<>>
    ELSE InsertByDtime(SortByDtime(SubSeq(lst, 1, Len(lst) - 1)),
                       lst[Len(lst)])

\* "update self.totals and clean up" of deposit
DepositCleanUp(self, exchange, currency, amount, remainder) ==
    LET tr == self.totals["in_transit"]
        left == tr[currency] - amount
        tr1 == IF Has(tr, currency)
               THEN (IF left <= 0 THEN Del(tr, currency)
                     ELSE Put(tr, currency, left))
               ELSE tr
        tt == IF tr1 = EmptyDict THEN Del(self.totals, "in_transit")
              ELSE Put(self.totals, "in_transit", tr1)
        it == IF Has(self.in_transit, currency)
                 /\ self.in_transit[currency] = <<>>
              THEN Del(self.in_transit, currency)
              ELSE self.in_transit
        s1 == IF Has(self.totals, "in_transit")
              THEN [self EXCEPT !.totals = tt, !.in_transit = it]
              ELSE self
        te == Get(s1.totals, exchange, EmptyDict)
    IN  [s1 EXCEPT !.totals =
            Put(s1.totals, exchange,
                Put(te, currency, Get(te, currency, 0) + amount - remainder))]

\* deposit from "any fees?" on
DepositFee(s4, dtime, currency, fee, ex) ==
    IF fee > 0
    THEN AddPaidProfit(pay(s4, dtime, currency, fee, ex, DOne, None,
                           [kind |-> "deposit fee"]), dtime)
    ELSE Ok(s4, None)

\* a deposit that pays its fee before it updates the totals
DepositBought_FeeFirst(bought, remainder, dtime, currency, amount, fee, ex) ==
    IF bought.exc # "" THEN bought
    ELSE IF DepositFee(bought.self, dtime, currency, fee, ex).exc # ""
    THEN DepositFee(bought.self, dtime, currency, fee, ex)
    ELSE Ok(DepositCleanUp(
                DepositFee(bought.self, dtime, currency, fee, ex).self,
                ex, currency, amount, remainder), None)

\* deposit after the remainder, if any, was bought with outcome bought
DepositBought(bought, remainder, dtime, currency, amount, fee, ex) ==
    IF bought.exc # "" THEN bought
    ELSE DepositFee(DepositCleanUp(bought.self, ex, currency, amount,
                                   remainder),
                    dtime, currency, fee, ex)

\* deposit from "if remainder:" on
DepositRemainder(s3, remainder, dtime, currency, amount, fee, ex) ==
    DepositBought(
        IF remainder # 0
        THEN buy_with_base_currency(s3, dtime, remainder, currency, DZero, ex)
        ELSE Ok(s3, None),
        remainder, dtime, currency, amount, fee, ex)

\* a deposit that leaves the moved bags at the end of the exchange's list
DepositMoved_Unsorted(s2, mv, dtime, currency, amount, fee, ex) ==
    IF mv.exc # ""
    THEN Raise([s2 EXCEPT
                   !.in_transit = Put(s2.in_transit, currency, mv.src),
                   !.bags = Put(s2.bags, ex, mv.dest),
                   !.num_created_bags = mv.num],
               mv.exc, "move")
    ELSE DepositRemainder(
             [s2 EXCEPT
                 !.in_transit = Put(s2.in_transit, currency, mv.src),
                 !.bags = Put(s2.bags, ex, mv.dest),
                 !.num_created_bags = mv.num],
             mv.to_move, dtime, currency, amount, fee, ex)

\* deposit after its call of _move_bags and the sort of the exchange's bags
DepositMoved(s2, mv, dtime, currency, amount, fee, ex) ==
    IF mv.exc # ""
    THEN Raise([s2 EXCEPT
                   !.in_transit = Put(s2.in_transit, currency, mv.src),
                   !.bags = Put(s2.bags, ex, mv.dest),
                   !.num_created_bags = mv.num],
               mv.exc, "move")
    ELSE DepositRemainder(
             [s2 EXCEPT
                 !.in_transit = Put(s2.in_transit, currency, mv.src),
                 !.bags = Put(s2.bags, ex, SortByDtime(mv.dest)),
                 !.num_created_bags = mv.num],
             mv.to_move, dtime, currency, amount, fee, ex)

\* deposit from "if currency in self.in_transit:" on; s2 is the engine with
\* a bag list for the exchange
DepositMove(s2, dtime, currency, amount, fee, ex) ==
    IF Has(s2.in_transit, currency)
    THEN DepositMoved(s2,
             _move_bags(s2.in_transit[currency], s2.bags[ex],
                        s2.num_created_bags, amount, currency),
             dtime, currency, amount, fee, ex)
    ELSE DepositRemainder(s2, amount, dtime, currency, amount, fee, ex)

\* deposit after its call of _check_order
DepositChecked(chk, dtime, currency, amount, fee, ex) ==
    IF chk.exc # "" THEN chk
    ELSE IF amount <= 0 THEN Ok(chk.self, None)
    ELSE IF currency = chk.self.currency
        THEN _abort(chk.self, "deposit base currency")
    ELSE DepositMove(
             IF Has(chk.self.bags, ex) THEN chk.self
             ELSE [chk.self EXCEPT !.bags = Put(chk.self.bags, ex, <<>>)],
             dtime, currency, amount, fee, ex)

deposit(self, dtime, currency, amount, fee, exchange) ==
    DepositChecked(_check_order(self, dtime), dtime, currency, amount, fee,
                   capitalize(exchange))

-----------------------------------------------------------------------------
(* BagFIFO.process_trade *)

\* trades.Trade.__init__: the Trade object built from the arguments (the
\* sides are swapped when buy_amount is negative, the fee is made positive,
\* an absent fee takes a currency of the trade), and whether the constructor
\* accepts them (valid) or raises ValueError
Trade(kind, dtime, buy_currency, buy_amount, sell_currency, sell_amount, fee_currency, fee_amount, exchange) ==
    LET swap == buy_amount < 0
        buyval == IF swap THEN sell_amount ELSE buy_amount
        sellval == Abs(IF swap THEN buy_amount ELSE sell_amount)
        buycur == IF swap THEN sell_currency ELSE buy_currency
        sellcur == IF swap THEN buy_currency ELSE sell_currency
        feeval == Abs(fee_amount)
        feecur == IF fee_amount = 0
                  THEN (IF fee_currency # sellcur /\ buycur # ""
                        THEN buycur ELSE sellcur)
                  ELSE fee_currency
    IN  [kind |-> kind, dtime |-> dtime, buycur |-> buycur,
         buyval |-> buyval, sellcur |-> sellcur, sellval |-> sellval,
         feecur |-> feecur, feeval |-> feeval, exchange |-> exchange,
         valid |-> /\ ~(sell_amount < 0 /\ buy_amount < 0)
                   /\ ~(/\ feeval > 0
                        /\ feecur # buy_currency
                        /\ feecur # sell_currency)]

\* an if/elif chain that has no exception for an exchange
Intent_NoException(self, trade) ==
    IF \/ trade.sellcur = self.currency /\ trade.sellval # 0
       \/ upper(trade.kind) = "DISTRIBUTION" /\ trade.sellval = 0
    THEN "buy"
    ELSE IF /\ (trade.buycur = "" \/ trade.buyval = 0)
            /\ (trade.sellcur = "" \/ trade.sellval = 0)
    THEN "fee"
    ELSE IF /\ upper(trade.kind) # "PAYMENT"
            /\ (trade.buycur = "" \/ trade.buyval = 0)
    THEN "withdraw"
    ELSE IF trade.sellcur = "" \/ trade.sellval = 0
    THEN "deposit"
    ELSE "sale"

\* the branch of process_trade's if/elif chain that a trade takes
Intent(self, trade) ==
    IF \/ trade.sellcur = self.currency /\ trade.sellval # 0
       \/ upper(trade.kind) = "DISTRIBUTION" /\ trade.sellval = 0
    THEN "buy"
    ELSE IF /\ (trade.buycur = "" \/ trade.buyval = 0)
            /\ (trade.sellcur = "" \/ trade.sellval = 0)
    THEN "fee"
    ELSE IF /\ upper(trade.kind) # "PAYMENT"
            /\ \/ trade.buycur = ""
               \/ /\ trade.buyval = 0
                  /\ (trade.exchange # "Poloniex" \/ trade.kind = "Withdrawal")
    THEN "withdraw"
    ELSE IF trade.sellcur = "" \/ trade.sellval = 0
    THEN "deposit"
    ELSE "sale"

\* a sale that gives the new bag the short-term profit as its cost, not the
\* proceeds
SalePaid_CostIsProfit(paid, trade) ==
    IF paid.exc # "" THEN paid
    ELSE IF trade.buycur # paid.self.currency
    THEN buy_with_base_currency(
             _add_profit(paid.self, trade.dtime, paid.ret[1]),
             trade.dtime, trade.buyval, trade.buycur, paid.ret[1],
             trade.exchange)
    ELSE Ok(_add_profit(paid.self, trade.dtime, paid.ret[1]), None)

\* a sale after the sold funds were paid with outcome paid: the profit is
\* added and, unless the base currency was bought, the new bag is created
SalePaid(paid, trade) ==
    IF paid.exc # "" THEN paid
    ELSE IF trade.buycur # paid.self.currency
    THEN buy_with_base_currency(
             _add_profit(paid.self, trade.dtime, paid.ret[1]),
             trade.dtime, trade.buyval, trade.buycur, paid.ret[2],
             trade.exchange)
    ELSE Ok(_add_profit(paid.self, trade.dtime, paid.ret[1]), None)

\* a sale after a fee in a third currency, if any, was paid with outcome
\* feepaid
SaleFeePaid(feepaid, trade, fee_p) ==
    IF feepaid.exc # "" THEN feepaid
    ELSE IF trade.buycur = feepaid.self.currency /\ fee_p = DOne
    THEN Raise(feepaid.self, "ArithmeticError", "division by zero")
    ELSE SalePaid(
             pay(feepaid.self, trade.dtime, trade.sellcur, trade.sellval,
                 trade.exchange, fee_p,
                 IF trade.buycur = feepaid.self.currency
                 THEN DDiv(Frac(trade.buyval, trade.sellval),
                           DSub(DOne, fee_p))
                 ELSE None,
                 [kind |-> "sale", buy_currency |-> trade.buycur,
                  buy_ratio |-> Frac(trade.buyval, trade.sellval)]),
             trade)

\* the last branch of process_trade: a sale
Sale(self, trade) ==
    LET third == /\ trade.feeval > 0
                 /\ trade.feecur # trade.sellcur
                 /\ trade.feecur # trade.buycur
        fee_in_sell_cur == get_rate(trade.dtime, trade.feecur, trade.sellcur)
        fee_p == IF trade.feeval > 0
                 THEN (IF trade.feecur = trade.sellcur
                       THEN Frac(trade.feeval, trade.sellval)
                       ELSE IF trade.feecur = trade.buycur
                       THEN Frac(trade.feeval, trade.buyval + trade.feeval)
                       ELSE DDiv(fee_in_sell_cur,
                                 DAdd(Decimal(trade.sellval), fee_in_sell_cur)))
                 ELSE DZero
    IN  IF third /\ trade.feecur # "BNB"
        THEN _abort(self, "fee currency")
        ELSE IF third /\ ~has_rate(trade.dtime, trade.feecur, trade.sellcur)
        THEN Raise(self, "KeyError", "relation")
        ELSE SaleFeePaid(
                 IF third
                 THEN pay(self, trade.dtime, trade.feecur, trade.feeval,
                          trade.exchange, DOne, None,
                          [kind |-> "exchange fee"])
                 ELSE Ok(self, None),
                 trade, fee_p)

\* the if/elif chain of process_trade; s2 is the engine with a profit entry
\* for the trade's year
Dispatch(s2, intent, trade) ==
    IF intent = "buy"
    THEN buy_with_base_currency(s2, trade.dtime, trade.buyval,
             trade.buycur, Decimal(trade.sellval), trade.exchange)
    ELSE IF intent = "fee"
    THEN (IF trade.feeval > 0 /\ trade.feecur # ""
          THEN AddPaidProfit(
                   pay(s2, trade.dtime, trade.feecur, trade.feeval,
                       trade.exchange, DOne, None,
                       [kind |-> "exchange fee"]), trade.dtime)
          ELSE Ok(s2, None))
    ELSE IF intent = "withdraw"
    THEN (IF trade.feeval > 0 /\ trade.sellcur # trade.feecur
          THEN _abort(s2, "fee currency")
          ELSE withdraw(s2, trade.dtime, trade.sellcur, trade.sellval,
                        trade.feeval, trade.exchange))
    ELSE IF intent = "deposit"
    THEN (IF trade.feeval > 0 /\ trade.buycur # trade.feecur
          THEN _abort(s2, "fee currency")
          ELSE deposit(s2, trade.dtime, trade.buycur, trade.buyval,
                       trade.feeval, trade.exchange))
    ELSE Sale(s2, trade)

\* process_trade after its call of _check_order
TradeChecked(chk, trade) ==
    IF chk.exc # "" THEN chk
    ELSE IF trade.buyval < 0 \/ trade.sellval < 0 \/ trade.feeval < 0
    THEN _abort(chk.self, "negative")
    ELSE Dispatch(
             IF Has(chk.self.profit, YearOf(trade.dtime)) THEN chk.self
             ELSE [chk.self EXCEPT
                      !.profit = Put(chk.self.profit, YearOf(trade.dtime),
                                     DZero)],
             Intent(chk.self, trade), trade)

process_trade(self, trade) ==
    TradeChecked(_check_order(self, trade.dtime), trade)

-----------------------------------------------------------------------------
(* BagFIFO.save and BagFIFO.load: the state goes through JSON            *)

\* _json_encode_default for a Decimal: str(obj), which is exact
EncodeDecimal(d) == [type |-> "Decimal", str |-> d]
\* _json_encode_default for a datetime: str(obj)
EncodeDatetime(t) == [type |-> "datetime", str |-> t]
\* _json_encode_default for a Bag: obj.__dict__, with its Decimals and its
\* datetime encoded in turn
EncodeBag(bag) ==
    [type |-> "Bag",
     dict |-> [id |-> bag.id, amount |-> EncodeDecimal(Decimal(bag.amount)),
               currency |-> bag.currency, dtime |-> EncodeDatetime(bag.dtime),
               cost_currency |-> bag.cost_currency,
               cost |-> EncodeDecimal(bag.cost),
               price |-> EncodeDecimal(bag.price)]]
\* _json_encode_default for the CapitalGainsReport: obj.__dict__; json
\* writes each PaymentReport (a tuple) as a list of its fields
EncodeReport(data) == [type |-> "CapitalGainsReport", data |-> data]

\* json.dump of self.__dict__ without 'relation'
to_json(self) ==
    [currency |-> self.currency,
     profit |-> [y \in DOMAIN self.profit |-> EncodeDecimal(self.profit[y])],
     bags |-> [ex \in DOMAIN self.bags |->
                  [i \in 1..Len(self.bags[ex]) |->
                      EncodeBag(self.bags[ex][i])]],
     totals |-> [ex \in DOMAIN self.totals |->
                    [c \in DOMAIN self.totals[ex] |->
                        EncodeDecimal(Decimal(self.totals[ex][c]))]],
     in_transit |-> [c \in DOMAIN self.in_transit |->
                        [i \in 1..Len(self.in_transit[c]) |->
                            EncodeBag(self.in_transit[c][i])]],
     report |-> EncodeReport(self.report),
     last_date |-> EncodeDatetime(self.last_date),
     num_created_bags |-> self.num_created_bags,
     dump_file |-> self.dump_file]

\* BagFIFO.save to a buffer with a write() method
save(self) == to_json(self)

\* _json_decode_hook for 'type(Decimal)' where the value is a whole amount
DecodeAmount(obj) == obj.str[1] \div obj.str[2]

\* Bag.__init__ with a price: the cost argument is ignored,
\* cost = amount * price
BagWithPrice(id, dtime, currency, amount, cost_currency, price) ==
    [id |-> id, dtime |-> dtime, currency |-> upper(currency),
     amount |-> amount, cost_currency |-> upper(cost_currency),
     cost |-> DMul(Decimal(amount), price), price |-> price]

\* _json_decode_hook for 'type(Bag)': Bag(**obj['type(Bag)']); price is in
\* the dict, so the bag is built from amount and price
DecodeBag(obj) ==
    BagWithPrice(obj.dict.id, obj.dict.dtime.str, obj.dict.currency,
                 DecodeAmount(obj.dict.amount), obj.dict.cost_currency,
                 obj.dict.price.str)

\* json.load with _json_decode_hook: the dict d that load() works on
json_load(js) ==
    [currency |-> js.currency,
     profit |-> [y \in DOMAIN js.profit |-> js.profit[y].str],
     bags |-> [ex \in DOMAIN js.bags |->
                  [i \in 1..Len(js.bags[ex]) |-> DecodeBag(js.bags[ex][i])]],
     totals |-> [ex \in DOMAIN js.totals |->
                    [c \in DOMAIN js.totals[ex] |->
                        DecodeAmount(js.totals[ex][c])]],
     in_transit |-> [c \in DOMAIN js.in_transit |->
                        [i \in 1..Len(js.in_transit[c]) |->
                            DecodeBag(js.in_transit[c][i])]],
     report |-> js.report.data,
     last_date |-> js.last_date.str,
     num_created_bags |-> js.num_created_bags,
     dump_file |-> js.dump_file]

\* "remove zero totals": the rows of d['totals'] without their zero entries
NonZeroTotals(tot) ==
    [ex \in DOMAIN tot |->
        [c \in {x \in DOMAIN tot[ex] : tot[ex][x] # 0} |-> tot[ex][c]]]

\* the currencies of the bags of a list that are not empty
HeldCurrencies(lst) ==
    {lst[i].currency : i \in {j \in 1..Len(lst) : lst[j].amount # 0}}

\* the sum of the amounts of the bags of a currency in a list (an empty bag
\* adds nothing)
RECURSIVE CheckSum(_, _)
CheckSum(lst, currency) ==
    IF lst = <<>> THEN 0
    ELSE (IF lst[1].currency = currency THEN lst[1].amount ELSE 0)
         + CheckSum(Tail(lst), currency)

\* the sum of the amounts of all bags in a list
RECURSIVE CheckSumAll(_)
CheckSumAll(lst) ==
    IF lst = <<>> THEN 0 ELSE lst[1].amount + CheckSumAll(Tail(lst))

\* check_totals of load: a row for every exchange in self.bags, and the row
\* 'in_transit' when a bag in transit is not empty
CheckTotals(self) ==
    LET rows == [ex \in DOMAIN self.bags |->
                    [c \in HeldCurrencies(self.bags[ex]) |->
                        CheckSum(self.bags[ex], c)]]
        check_transit ==
            [c \in {x \in DOMAIN self.in_transit :
                       HeldCurrencies(self.in_transit[x]) # {}} |->
                CheckSumAll(self.in_transit[c])]
    IN  IF DOMAIN check_transit # {}
        THEN Put(rows, "in_transit", check_transit) ELSE rows

\* "check consistency of totals" of load, on the restored state
LoadCheck(self) ==
    IF \E ex \in DOMAIN self.bags : \E i \in 1..Len(self.bags[ex]) :
          /\ self.bags[ex][i].amount # 0
          /\ self.bags[ex][i].cost_currency # self.currency
    THEN Raise(self, "Exception", "cost currency")
    ELSE IF CheckTotals(self) # self.totals
        THEN Raise(self, "Exception", "totals")
        ELSE Ok(self, None)

\* load after json.load returned d.  Deleting a row of d['totals'] inside
\* the loop over d['totals'] makes the loop raise RuntimeError (dictionary
\* changed size during iteration), before self is touched.
LoadDecoded(self, d) ==
    IF \E ex \in DOMAIN d.totals : NonZeroTotals(d.totals)[ex] = EmptyDict
    THEN Raise(self, "RuntimeError", "dictionary changed size")
    ELSE LoadCheck([bags |-> d.bags, in_transit |-> d.in_transit,
                    totals |-> NonZeroTotals(d.totals), profit |-> d.profit,
                    report |-> d.report, last_date |-> d.last_date,
                    num_created_bags |-> d.num_created_bags,
                    dump_file |-> d.dump_file, currency |-> d.currency])

\* BagFIFO.load from a buffer with a read() method
load(self, js) == LoadDecoded(self, json_load(js))

-----------------------------------------------------------------------------
(* relations.py: CurrencyPair, Recipe, RecipeStep and CurrencyRelation.   *)
(* A dict is kept as the sequence of its items in insertion order, which   *)
(* is the order in which Python iterates over it.                          *)

\* CurrencyPair(base, quote)
CurrencyPair(base, quote) == <<base, quote>>
\* CurrencyPair.reversed
PairReversed(pair) == CurrencyPair(pair[2], pair[1])
\* CurrencyPair.__add__
PairAdd(pair, other) == CurrencyPair(pair[1], other[2])

\* RecipeStep(base, quote, reciprocal)
RecipeStep(base, quote, reciprocal) == <<base, quote, reciprocal>>
\* RecipeStep.reversed: the same direct pair, reciprocal set opposite
StepReversed(step) == RecipeStep(step[1], step[2], ~step[3])

\* Recipe(num_steps, recipe_steps)
Recipe(num_steps, recipe_steps) ==
    [num_steps |-> num_steps, recipe_steps |-> recipe_steps]

\* [step.reversed() for step in reversed(recipe_steps)]
RECURSIVE ReversedSteps(_)
ReversedSteps(steps) ==
    IF steps = <<>> THEN <<>>
    ELSE ReversedSteps(Tail(steps)) \o <<StepReversed(Head(steps))>>

\* Recipe.reversed that keeps the order of the steps
RecipeReversed_SameOrder(recipe) ==
    Recipe(recipe.num_steps,
           [i \in 1..Len(recipe.recipe_steps) |->
               StepReversed(recipe.recipe_steps[i])])

\* Recipe.reversed: num_steps is kept
RecipeReversed(recipe) ==
    Recipe(recipe.num_steps, ReversedSteps(recipe.recipe_steps))

\* RecipeStep.as_recipe
as_recipe(step) == Recipe(1, <<step>>)
\* Recipe.__add__ with a Recipe
RecipeAdd(recipe, other) ==
    Recipe(recipe.num_steps + other.num_steps,
           recipe.recipe_steps \o other.recipe_steps)
\* Recipe.__add__ with a RecipeStep
RecipeAddStep(recipe, step) ==
    Recipe(recipe.num_steps + 1, Append(recipe.recipe_steps, step))
\* RecipeStep.__add__ that puts the step after the steps of the recipe
StepAddRecipe_AtEnd(step, recipe) ==
    Recipe(recipe.num_steps + 1, Append(recipe.recipe_steps, step))

\* RecipeStep.__add__ with a Recipe
StepAddRecipe(step, recipe) ==
    Recipe(recipe.num_steps + 1, <<step>> \o recipe.recipe_steps)

\* the order of the currency names as Python strings
StrOrd(s) ==
    CASE s = "A" -> 1 [] s = "B" -> 2 [] s = "BTC" -> 3 [] s = "C" -> 4
      [] s = "D" -> 5 [] s = "E" -> 6 [] s = "EUR" -> 7 [] s = "XMR" -> 8
      [] OTHER -> 9

\* tuple.__lt__ on two RecipeSteps
StepLess(s, t) ==
    \/ StrOrd(s[1]) < StrOrd(t[1])
    \/ s[1] = t[1] /\ StrOrd(s[2]) < StrOrd(t[2])
    \/ s[1] = t[1] /\ s[2] = t[2] /\ ~s[3] /\ t[3]

\* list.__lt__ on two lists of RecipeSteps
RECURSIVE StepsLess(_, _)
StepsLess(x, y) ==
    IF y = <<>> THEN FALSE
    ELSE IF x = <<>> THEN TRUE
    ELSE IF Head(x) # Head(y) THEN StepLess(Head(x), Head(y))
    ELSE StepsLess(Tail(x), Tail(y))

\* recipe < other.  Recipe is a namedtuple, so total_ordering finds all four
\* comparisons already defined (by tuple) and adds none: "<" is tuple.__lt__,
\* which compares num_steps and then the lists of steps.
RecipeLess(recipe, other) ==
    \/ recipe.num_steps < other.num_steps
    \/ /\ recipe.num_steps = other.num_steps
       /\ StepsLess(recipe.recipe_steps, other.recipe_steps)

\* the position of a key in a dict, 0 when it is not in
IndexOf(d, key) ==
    IF \E i \in 1..Len(d) : d[i].key = key
    THEN CHOOSE i \in 1..Len(d) : d[i].key = key
    ELSE 0
\* key in d
In(d, key) == IndexOf(d, key) # 0
\* d[key]
Item(d, key) == d[IndexOf(d, key)].value
\* d[key] = value: a new key goes to the end, a known key keeps its place
SetItem(d, key, value) ==
    IF In(d, key)
    THEN [d EXCEPT ![IndexOf(d, key)] = [key |-> key, value |-> value]]
    ELSE Append(d, [key |-> key, value |-> value])

\* can_add_before
can_add_before(new, existing) ==
    new[2] = existing[1] /\ new # PairReversed(existing)
\* can_add_after
can_add_after(new, existing) ==
    new[1] = existing[2] /\ new # PairReversed(existing)

\* update_if_shorter that never replaces a stored recipe
update_if_shorter_KeepFirst(recipes, pair, recipe) ==
    IF ~In(recipes, pair)
    THEN [recipes |-> SetItem(SetItem(recipes, pair, recipe),
                              PairReversed(pair), RecipeReversed(recipe)),
          updated |-> TRUE]
    ELSE [recipes |-> recipes, updated |-> FALSE]

\* update_if_shorter: the dict afterwards and the returned flag
update_if_shorter(recipes, pair, recipe) ==
    IF ~In(recipes, pair) \/ RecipeLess(recipe, Item(recipes, pair))
    THEN [recipes |-> SetItem(SetItem(recipes, pair, recipe),
                              PairReversed(pair), RecipeReversed(recipe)),
          updated |-> TRUE]
    ELSE [recipes |-> recipes, updated |-> FALSE]

\* the loop's state after a recipe was offered to update_if_shorter, with
\* the known item appended to one of the two lists when it was taken
KnownAdded(st, upd, known, before) ==
    [recipes |-> upd.recipes,
     added_before |-> IF upd.updated /\ before
                      THEN Append(st.added_before, known)
                      ELSE st.added_before,
     added_after |-> IF upd.updated /\ ~before
                     THEN Append(st.added_after, known)
                     ELSE st.added_after]

\* a pass that only tries to put the new pair before the known recipe
KnownStep_BeforeOnly(st, root_pair, root_step, known) ==
    IF can_add_before(root_pair, known.key)
    THEN KnownAdded(st, update_if_shorter(st.recipes,
                                          PairAdd(root_pair, known.key),
                                          StepAddRecipe(root_step,
                                                        known.value)),
                    known, TRUE)
    ELSE st

\* one pass of "for known_pair, known_recipe in tuple(self.recipes.items())"
KnownStep(st, root_pair, root_step, known) ==
    IF can_add_before(root_pair, known.key)
    THEN KnownAdded(st, update_if_shorter(st.recipes,
                                          PairAdd(root_pair, known.key),
                                          StepAddRecipe(root_step,
                                                        known.value)),
                    known, TRUE)
    ELSE IF can_add_after(root_pair, known.key)
    THEN KnownAdded(st, update_if_shorter(st.recipes,
                                          PairAdd(known.key, root_pair),
                                          RecipeAddStep(known.value,
                                                        root_step)),
                    known, FALSE)
    ELSE st

\* the loop over the items the dict had when the loop began
RECURSIVE KnownLoop(_, _, _, _, _)
KnownLoop(st, root_pair, root_step, items, i) ==
    IF i > Len(items) THEN st
    ELSE KnownLoop(KnownStep(st, root_pair, root_step, items[i]),
                   root_pair, root_step, items, i + 1)

\* "for pair_a, recipe_a in added_after: for pair_b, recipe_b in
\* added_before": the recipes where the new pair joins two old ones
RECURSIVE MiddleLoop(_, _, _, _, _, _)
MiddleLoop(recipes, root_step, added_after, added_before, i, j) ==
    IF i > Len(added_after) THEN recipes
    ELSE IF j > Len(added_before)
    THEN MiddleLoop(recipes, root_step, added_after, added_before, i + 1, 1)
    ELSE MiddleLoop(
             update_if_shorter(
                 recipes,
                 PairAdd(added_after[i].key, added_before[j].key),
                 RecipeAdd(RecipeAddStep(added_after[i].value, root_step),
                           added_before[j].value)).recipes,
             root_step, added_after, added_before, i, j + 1)

\* the body without the loop that joins two old recipes
RootJoined_NoMiddle(st, root_pair, root_step) ==
    update_if_shorter(st.recipes, root_pair, as_recipe(root_step)).recipes

\* the body of "for root_base, root_quote in to_add" after its first loop
RootJoined(st, root_pair, root_step) ==
    update_if_shorter(
        MiddleLoop(st.recipes, root_step, st.added_after, st.added_before,
                   1, 1),
        root_pair, as_recipe(root_step)).recipes

\* the body of "for root_base, root_quote in to_add"
AddRoot(recipes, root_pair, root_step) ==
    RootJoined(KnownLoop([recipes |-> recipes, added_after |-> <<>>,
                          added_before |-> <<>>],
                         root_pair, root_step, recipes, 1),
               root_pair, root_step)

\* "for root_base, root_quote in to_add"
RECURSIVE AddAll(_, _)
AddAll(recipes, to_add) ==
    IF to_add = <<>> THEN recipes
    ELSE AddAll(AddRoot(recipes, Head(to_add),
                        RecipeStep(Head(to_add)[1], Head(to_add)[2], FALSE)),
                Tail(to_add))

\* key in self.historic_prices (the sequence of its keys)
Priced2(historic_prices, key) ==
    \E i \in 1..Len(historic_prices) : historic_prices[i] = key

\* CurrencyRelation.update_available_pairs; update_pair is None for a full
\* rebuild
update_available_pairs(self, update_pair) ==
    IF update_pair = None
    THEN Ok([self EXCEPT !.recipes = AddAll(<<>>, self.historic_prices)],
            None)
    ELSE IF Priced2(self.historic_prices, update_pair)
    THEN Ok([self EXCEPT !.recipes = AddAll(self.recipes, <<update_pair>>)],
            None)
    ELSE IF Priced2(self.historic_prices, PairReversed(update_pair))
    THEN Ok([self EXCEPT !.recipes =
                AddAll(self.recipes, <<PairReversed(update_pair)>>)], None)
    ELSE Raise(self, "ValueError", "no historical data")

\* HistoricData.get_price(dtime) of the data supplied for a direct pair
get_price(key, dtime) == Frac(StrOrd(key[1]) + dtime + 1, StrOrd(key[2]) + 1)

\* "for base_cur, quote_cur, inverse in steps" of get_rate
RECURSIVE RateLoop(_, _, _)
RateLoop(steps, dtime, result) ==
    IF steps = <<>> THEN result
    ELSE RateLoop(Tail(steps), dtime,
                  IF ~Head(steps)[3]
                  THEN DMul(result,
                            get_price(CurrencyPair(Head(steps)[1],
                                                   Head(steps)[2]), dtime))
                  ELSE DDiv(result,
                            get_price(CurrencyPair(Head(steps)[1],
                                                   Head(steps)[2]), dtime)))

\* CurrencyRelation.get_rate, computed from the recipe of the pair key
RecipeRate(self, dtime, key) ==
    IF ~In(self.recipes, key) THEN Raise(self, "KeyError", "recipes")
    ELSE Ok(self, RateLoop(Item(self.recipes, key).recipe_steps, dtime, DOne))

\* self.historic_prices[key] = hist_data
SetPrices(historic_prices, key) ==
    IF Priced2(historic_prices, key) THEN historic_prices
    ELSE Append(historic_prices, key)

\* CurrencyRelation.add_historic_data, for data of the pair key
add_historic_data(self, key) ==
    update_available_pairs(
        [self EXCEPT !.historic_prices = SetPrices(self.historic_prices, key)],
        key)

\* for hist_data in args: self.historic_prices[key] = hist_data
RECURSIVE SetAllPrices(_, _)
SetAllPrices(historic_prices, keys) ==
    IF keys = <<>> THEN historic_prices
    ELSE SetAllPrices(SetPrices(historic_prices, Head(keys)), Tail(keys))

\* CurrencyRelation.__init__(*args), for data of the pairs keys
CurrencyRelation(keys) ==
    update_available_pairs(
        [historic_prices |-> SetAllPrices(<<>>, keys), recipes |-> <<>>],
        None).self

-----------------------------------------------------------------------------
(* The engine as a state machine *)

\* the BagFIFO object
Self ==
    [bags |-> bags, in_transit |-> in_transit, totals |-> totals,
     profit |-> profit, report |-> report, last_date |-> last_date,
     num_created_bags |-> num_created_bags, dump_file |-> dump_file,
     currency |-> BaseCurrency]

\* BagFIFO.__init__(base_currency, relation, json_dump): json_dump is a
\* file name or None
BagFIFO ==
    /\ bags = EmptyDict
    /\ in_transit = EmptyDict
    /\ totals = EmptyDict
    /\ profit = EmptyDict
    /\ report = <<>>
    /\ last_date = 0
    /\ num_created_bags = 0
    /\ dump_file \in BOOLEAN
    /\ call = [op |-> "__init__", args |-> None, pre |-> None, exc |-> "",
               msg |-> "", ret |-> None, saved |-> FALSE, seq |-> 0]

\* the fields of a BagFIFO object after __init__
NewBagFIFO(json_dump) ==
    [bags |-> EmptyDict, in_transit |-> EmptyDict, totals |-> EmptyDict,
     profit |-> EmptyDict, report |-> <<>>, last_date |-> 0,
     num_created_bags |-> 0, dump_file |-> json_dump,
     currency |-> BaseCurrency]

\* the second engine before anything was loaded into it
NotRestored(json_dump) ==
    [self |-> NewBagFIFO(json_dump), restored |-> FALSE, exc |-> ""]

\* no trading_set is running
NoTrading ==
    [budget |-> 0, current_budget |-> 0, current_curr |-> BaseCurrency,
     dayslist |-> <<>>, raised |-> FALSE]

\* setUp of tests/test_bags.py: the relation of the engine has data for
\* EUR/BTC and XMR/BTC
TestRelation ==
    CurrencyRelation(<<CurrencyPair("BTC", "EUR"), CurrencyPair("BTC", "XMR")>>)

Init ==
    /\ BagFIFO
    /\ trading = NoTrading
    /\ bf2 = NotRestored(dump_file)
    /\ relation = TestRelation
    /\ tlist = <<>>

\* a call of method op with arguments args is made and has outcome r
Called(op, args, r) ==
    /\ bags' = r.self.bags
    /\ in_transit' = r.self.in_transit
    /\ totals' = r.self.totals
    /\ profit' = r.self.profit
    /\ report' = r.self.report
    /\ last_date' = r.self.last_date
    /\ num_created_bags' = r.self.num_created_bags
    /\ dump_file' = r.self.dump_file
    /\ call' = [op |-> op, args |-> args, pre |-> Self, exc |-> r.exc,
                msg |-> r.msg, ret |-> r.ret, saved |-> r.saved,
                seq |-> call.seq + 1]

\* another call can be made on this engine
MoreCalls == call.seq < MaxCalls

\* the datetimes of a call: the time of the last call or the tick after it
\* (the direct calls of buy_with_base_currency, withdraw and deposit below
\* are made at the time of the last call)
Times == {t \in 0..MaxTime : last_date <= t /\ t <= last_date + 1}
\* a datetime before the last call's, which _check_order rejects
Earlier == {t \in 0..MaxTime : t = last_date - 1}

\* the trades fed to process_trade
Trades(t) ==
    {tr \in {Trade("Buy", t, "BTC", 3, BaseCurrency, 4, "", 0, "exa"),
             Trade("Trade", t, BaseCurrency, 2, "BTC", 2, "BTC", 1, "exa"),
             Trade("Trade", t, "XMR", 2, "BTC", 4, "XMR", 1, "exa"),
             Trade("Withdrawal", t, "", 0, "BTC", 2, "BTC", 1, "exa"),
             Trade("Withdrawal", t, "", 0, "BTC", 1, "", 0, "exa"),
             Trade("Deposit", t, "BTC", 2, "", 0, "", 0, "Exb"),
             Trade("Fee", t, "", 0, "", 0, "BTC", 1, "exa")} : tr.valid}

ProcessTrade ==
    /\ MoreCalls
    /\ \E t \in Times \cup Earlier : \E trade \in Trades(t) :
        /\ t \in Earlier => trade.kind = "Buy"
        /\ Called("process_trade", trade, process_trade(Self, trade))
        /\ UNCHANGED <<trading, bf2, relation, tlist>>

Buy ==
    /\ MoreCalls
    /\ \E t \in {last_date} \cup Earlier :
        /\ Called("buy_with_base_currency",
               [dtime |-> t, amount |-> 1, currency |-> "XMR",
                cost |-> Decimal(1), exchange |-> "exa"],
               buy_with_base_currency(Self, t, 1, "XMR", Decimal(1), "exa"))
        /\ UNCHANGED <<trading, bf2, relation, tlist>>

Withdraw ==
    /\ MoreCalls
    /\ \E t \in {last_date} \cup Earlier :
        /\ Called("withdraw",
               [dtime |-> t, currency |-> "BTC", amount |-> 1, fee |-> 1,
                exchange |-> "exa"],
               withdraw(Self, t, "BTC", 1, 1, "exa"))
        /\ UNCHANGED <<trading, bf2, relation, tlist>>

Deposit ==
    /\ MoreCalls
    /\ \E t \in {last_date} \cup Earlier :
        /\ Called("deposit",
               [dtime |-> t, currency |-> "BTC", amount |-> 2, fee |-> 1,
                exchange |-> "Exb"],
               deposit(Self, t, "BTC", 2, 1, "Exb"))
        /\ UNCHANGED <<trading, bf2, relation, tlist>>

Pay ==
    /\ MoreCalls
    /\ \E t \in Times \cup Earlier, af \in {<<1, DZero>>, <<4, Frac(1, 2)>>} :
        /\ t \in Earlier => af[1] = 1
        /\ Called("pay",
               [dtime |-> t, currency |-> "BTC", amount |-> af[1],
                exchange |-> "exa", fee_ratio |-> af[2]],
               pay(Self, t, "BTC", af[1], "exa", af[2], None,
                   [kind |-> "payment"]))
        /\ UNCHANGED <<trading, bf2, relation, tlist>>

Next == ProcessTrade \/ Buy \/ Withdraw \/ Deposit \/ Pay

Spec == Init /\ [][Next]_vars

-----------------------------------------------------------------------------
(* tests/test_bags.py, trading_set: starting with a budget in the base     *)
(* currency, every trade exchanges all of the available budget into        *)
(* another currency, until the budget is back in the base currency.  The   *)
(* amount received and the fee of each trade are free (any exchange rate,  *)
(* any fee ratio below 1); the days of one set lie within one year.        *)

\* the fee of a trade of current_budget into to_amount: none, or one unit
\* in the currency sold or in the currency bought
FeeList(current_curr, to_curr) ==
    {<<0, "">>, <<1, current_curr>>, <<1, to_curr>>}

\* the budgets and the amounts received
Amounts == {MaxAmount - 1, MaxAmount}

InitTrading ==
    /\ BagFIFO
    /\ \E budget \in Amounts :
           trading = [budget |-> budget, current_budget |-> budget,
                      current_curr |-> BaseCurrency, dayslist |-> <<>>,
                      raised |-> FALSE]
    /\ bf2 = NotRestored(dump_file)
    /\ relation = TestRelation
    /\ tlist = <<>>

\* one pass of the loop of trading_set
TradingSet ==
    /\ Len(trading.dayslist) < MaxTrades
    /\ ~trading.raised
    /\ trading.dayslist = <<>> \/ trading.current_curr # BaseCurrency
    /\ \E day \in Times, to_amount \in Amounts,
          to_curr \in (Currencies \cup {BaseCurrency})
                          \ {trading.current_curr} :
           \E fee \in FeeList(trading.current_curr, to_curr) :
               LET trade == Trade("Trade", day, to_curr, to_amount,
                                  trading.current_curr,
                                  trading.current_budget,
                                  fee[2], fee[1], "exa")
                   r == process_trade(Self, trade)
               IN  /\ trading.dayslist # <<>>
                          => day - trading.dayslist[1] < YearLen
                   /\ trade.valid
                   /\ Called("process_trade", trade, r)
                   /\ trading' = [trading EXCEPT
                                     !.current_budget = to_amount,
                                     !.current_curr = to_curr,
                                     !.dayslist = Append(@, day),
                                     !.raised = r.exc # ""]
                   /\ UNCHANGED <<bf2, relation, tlist>>

NextTrading == TradingSet

SpecTrading == InitTrading /\ [][NextTrading]_vars

-----------------------------------------------------------------------------
(* tests/test_bags.py, test_saving_loading: trades are processed, the      *)
(* state is saved and loaded into a second engine bf2, and the further     *)
(* trades are processed by both engines.  A run ends with the first call   *)
(* that raises.                                                            *)

\* the trades of test_saving_loading: purchases, withdrawals with and
\* without fee, and a sale
ResumeTrades(t) ==
    {tr \in {Trade("Buy", t, "BTC", 3, BaseCurrency, 4, "", 0, "exa"),
             Trade("Buy", t, "XMR", 1, BaseCurrency, 1, "", 0, "exa"),
             Trade("Withdrawal", t, "", 0, "XMR", 1, "", 0, "exa"),
             Trade("Withdrawal", t, "", 0, "BTC", 1, "BTC", 1, "exa"),
             Trade("Trade", t, BaseCurrency, 2, "BTC", 2, "BTC", 1, "exa")} :
        tr.valid}

\* another trade of the test can be processed
MoreTrades == call.seq < MaxResume /\ call.exc = "" /\ call.op # "load_file"

\* bagfifo.process_trade(t), and bf2.process_trade(t) once bf2 is restored
ResumeTrade ==
    /\ MoreTrades
    /\ \E t \in Times : \E trade \in ResumeTrades(t) :
        /\ Called("process_trade", trade, process_trade(Self, trade))
        /\ bf2' = IF bf2.restored
                  THEN LET r2 == process_trade(bf2.self, trade)
                       IN  [bf2 EXCEPT !.self = r2.self, !.exc = r2.exc]
                  ELSE bf2
        /\ UNCHANGED <<trading, relation, tlist>>

\* bagfifo.save(outfile); bf2.load(outfile)
SaveLoad ==
    /\ MoreTrades
    /\ ~bf2.restored
    /\ LET r == load(bf2.self, save(Self))
       IN  /\ bf2' = [self |-> r.self, restored |-> r.exc = "",
                      exc |-> r.exc]
           /\ call' = [op |-> "load", args |-> [js |-> save(Self)],
                       pre |-> Self, exc |-> r.exc, msg |-> r.msg,
                       ret |-> None, saved |-> FALSE, seq |-> call.seq]
    /\ UNCHANGED <<bags, in_transit, totals, profit, report, last_date,
                   num_created_bags, dump_file, trading, relation, tlist>>

\* a saved file in which one entry of totals was changed
WrongTotals(js) ==
    {[js EXCEPT !.totals[ex][c] =
                   EncodeDecimal(Decimal(DecodeAmount(js.totals[ex][c]) + 1))] :
        <<ex, c>> \in {p \in (DOMAIN js.totals) \X Currencies :
                          p[2] \in DOMAIN js.totals[p[1]]}}

\* a saved file in which one bag on an exchange has another cost_currency
WrongBag(js) ==
    {[js EXCEPT !.bags[ex][i].dict.cost_currency = OtherCurrency] :
        <<ex, i>> \in {p \in (DOMAIN js.bags) \X (1..MaxBags) :
                          p[2] <= Len(js.bags[p[1]])}}

\* a saved file in which one bag in transit has another cost_currency
WrongTransitBag(js) ==
    {[js EXCEPT !.in_transit[c][i].dict.cost_currency = OtherCurrency] :
        <<c, i>> \in {p \in (DOMAIN js.in_transit) \X (1..MaxBags) :
                         p[2] <= Len(js.in_transit[p[1]])}}

\* the file saved by an engine with the same state and another base
\* currency
OtherBase(js) ==
    [js EXCEPT
       !.currency = OtherCurrency,
       !.bags = [ex \in DOMAIN js.bags |->
                    [i \in 1..Len(js.bags[ex]) |->
                        [js.bags[ex][i] EXCEPT
                            !.dict.cost_currency = OtherCurrency]]],
       !.in_transit = [c \in DOMAIN js.in_transit |->
                          [i \in 1..Len(js.in_transit[c]) |->
                              [js.in_transit[c][i] EXCEPT
                                  !.dict.cost_currency = OtherCurrency]]]]

\* the files given to load that are not what this engine saved
Files(js) ==
    WrongTotals(js) \cup WrongBag(js) \cup WrongTransitBag(js)
        \cup (IF js.bags # EmptyDict \/ js.in_transit # EmptyDict
              THEN {OtherBase(js)} ELSE {})

\* BagFIFO(base_currency, relation).load(file) with such a file; ret is the
\* engine's base currency afterwards
LoadFile ==
    /\ MoreTrades
    /\ ~bf2.restored
    /\ \E js \in Files(save(Self)) :
        LET r == load(NewBagFIFO(dump_file), js)
        IN  call' = [op |-> "load_file", args |-> [js |-> js], pre |-> Self,
                     exc |-> r.exc, msg |-> r.msg, ret |-> r.self.currency,
                     saved |-> FALSE, seq |-> call.seq]
    /\ UNCHANGED <<bags, in_transit, totals, profit, report, last_date,
                   num_created_bags, dump_file, trading, bf2, relation,
                   tlist>>

\* bagfifo = bags.BagFIFO('EUR', self.rel), with the default json_dump
InitResume == Init /\ dump_file

NextResume == ResumeTrade \/ SaveLoad \/ LoadFile

SpecResume == InitResume /\ [][NextResume]_vars

-----------------------------------------------------------------------------
(* tests/test_relations.py: a CurrencyRelation to which direct pairs are   *)
(* added one at a time, with full rebuilds in between                      *)

\* the currencies of the tests
RelCurrencies == {"A", "B", "C", "D"}

\* the direct pairs for which historic data is supplied, in a fixed order
DirectPairs ==
    <<CurrencyPair("A", "B"), CurrencyPair("C", "D"), CurrencyPair("B", "C"),
      CurrencyPair("A", "D"), CurrencyPair("C", "B"), CurrencyPair("D", "A"),
      CurrencyPair("A", "C"), CurrencyPair("D", "B")>>

\* a call on the relation is made and has outcome r
RelationCalled(op, key, r) ==
    /\ relation' = r.self
    /\ call' = [op |-> op, args |-> [key |-> key], pre |-> relation,
                exc |-> r.exc, msg |-> r.msg, ret |-> None, saved |-> FALSE,
                seq |-> 0]
    /\ UNCHANGED <<bags, in_transit, totals, profit, report, last_date,
                   num_created_bags, dump_file, trading, bf2, tlist>>

\* self.rel = relations.CurrencyRelation(), or with data given at once
InitRelation ==
    /\ BagFIFO
    /\ trading = NoTrading
    /\ bf2 = NotRestored(dump_file)
    /\ dump_file
    /\ relation \in {CurrencyRelation(<<>>),
                     CurrencyRelation(<<DirectPairs[1], DirectPairs[2]>>)}
    /\ tlist = <<>>

\* rel.add_historic_data(hist_data)
AddHistoricData ==
    \E i \in 1..Len(DirectPairs) :
        /\ Len(relation.historic_prices) < MaxPairs
        /\ RelationCalled("add_historic_data", DirectPairs[i],
                          add_historic_data(relation, DirectPairs[i]))

\* rel.update_available_pairs(): the full rebuild
Rebuild ==
    RelationCalled("update_available_pairs", None,
                   update_available_pairs(relation, None))

NextRelation == AddHistoricData \/ Rebuild

SpecRelation == InitRelation /\ [][NextRelation]_vars

-----------------------------------------------------------------------------
(* A ledger on one exchange, which may be stopped and resumed from its      *)
(* snapshot: a purchase, a withdrawal and a deposit with fee, a sale, a fee *)

LedgerTrades(t) ==
    {Trade("Buy", t, "BTC", 3, BaseCurrency, 4, "", 0, "exa"),
     Trade("Withdrawal", t, "", 0, "BTC", 2, "BTC", 1, "exa"),
     Trade("Withdrawal", t, "", 0, "BTC", 3, "BTC", 1, "exa"),
     Trade("Deposit", t, "BTC", 2, "", 0, "BTC", 1, "exa"),
     Trade("Deposit", t, "BTC", 1, "", 0, "", 0, "exb"),
     Trade("Trade", t, BaseCurrency, 2, "BTC", 2, "BTC", 1, "exa"),
     Trade("Fee", t, "", 0, "", 0, "BTC", 1, "exa")}

\* the ledger goes on until a call raises
MoreLedger == call.seq < MaxLedger /\ call.exc = ""

LedgerTrade ==
    /\ MoreLedger
    /\ \E t \in Times : \E trade \in LedgerTrades(t) :
        /\ Called("process_trade", trade, process_trade(Self, trade))
        /\ UNCHANGED <<trading, bf2, relation, tlist>>

\* a fee is taken from the exchange by a call of pay with fee_ratio=1, as
\* withdraw, deposit and process_trade do it
PayFee ==
    /\ MoreLedger
    /\ \E t \in Times :
        /\ Called("pay",
               [dtime |-> t, currency |-> "BTC", amount |-> 1,
                exchange |-> "exa", fee_ratio |-> DOne],
               pay(Self, t, "BTC", 1, "exa", DOne, None,
                   [kind |-> "exchange fee"]))
        /\ UNCHANGED <<trading, bf2, relation, tlist>>

\* the program is stopped after a save and goes on with a new engine that
\* loaded the file
Restore ==
    /\ MoreLedger
    /\ call.op = "process_trade"
    /\ Called("load", None, load(NewBagFIFO(dump_file), save(Self)))
    /\ UNCHANGED <<trading, bf2, relation, tlist>>

InitLedger == Init /\ dump_file

NextLedger == LedgerTrade \/ PayFee \/ Restore

SpecLedger == InitLedger /\ [][NextLedger]_vars

-----------------------------------------------------------------------------
(* Transfers between two exchanges: purchases on both at different times,   *)
(* withdrawals from both, deposits on either                                *)

TransferTrades(t) ==
    {Trade("Buy", t, "BTC", 3, BaseCurrency, 4, "", 0, "exa"),
     Trade("Buy", t, "BTC", 2, BaseCurrency, 3, "", 0, "exb"),
     Trade("Withdrawal", t, "", 0, "BTC", 1, "", 0, "exa"),
     Trade("Withdrawal", t, "", 0, "BTC", 2, "", 0, "exb"),
     Trade("Deposit", t, "BTC", 2, "", 0, "", 0, "exa"),
     Trade("Deposit", t, "BTC", 1, "", 0, "", 0, "exb")}

\* the run goes on until a call raises
MoreTransfers == call.seq < MaxTransfer /\ call.exc = ""

Transfer ==
    /\ MoreTransfers
    /\ \E t \in Times : \E trade \in TransferTrades(t) :
        /\ Called("process_trade", trade, process_trade(Self, trade))
        /\ UNCHANGED <<trading, bf2, relation, tlist>>

InitTransfer == Init /\ dump_file

NextTransfer == Transfer

SpecTransfer == InitTransfer /\ [][NextTransfer]_vars

-----------------------------------------------------------------------------
(* Splits: the transfers above among purchases of a second currency, which  *)
(* put bags of another currency in front of the bag that is split          *)

SplitTrades(t) ==
    TransferTrades(t)
        \cup {Trade("Buy", t, "XMR", 1, BaseCurrency, 1, "", 0, "exa")}

\* the run goes on until a call raises
MoreSplits == call.seq < MaxSplit /\ call.exc = ""

SplitTrade ==
    /\ MoreSplits
    /\ \E t \in Times : \E trade \in SplitTrades(t) :
        /\ Called("process_trade", trade, process_trade(Self, trade))
        /\ UNCHANGED <<trading, bf2, relation, tlist>>

NextSplit == SplitTrade

SpecSplit == InitTransfer /\ [][NextSplit]_vars

-----------------------------------------------------------------------------
(* The dispatcher of process_trade: trades of every shape (either side      *)
(* empty, zero or given, paid in base or in another currency), kind and     *)
(* exchange are handed to a new engine                                      *)

DispatchKinds ==
    {"Trade", "Withdrawal", "withdrawal", "Payment", "Distribution"}
DispatchExchanges == {"exa", "Poloniex", "poloniex"}
\* the currency and the amount of the side bought
DispatchBuys == {<<"", 0>>, <<"BTC", 0>>, <<"BTC", 2>>}
\* the currency and the amount of the side sold
DispatchSells ==
    {<<"", 0>>, <<"XMR", 0>>, <<"XMR", 1>>, <<BaseCurrency, 0>>,
     <<BaseCurrency, 1>>}

DispatchTrades(t) ==
    {Trade(kind, t, buy[1], buy[2], sell[1], sell[2], "", 0, exchange) :
        kind \in DispatchKinds, buy \in DispatchBuys, sell \in DispatchSells,
        exchange \in DispatchExchanges}

\* the run goes on until a call raises
MoreDispatch == call.seq < MaxDispatch /\ call.exc = ""

DispatchTrade ==
    /\ MoreDispatch
    /\ \E trade \in DispatchTrades(last_date) :
        /\ Called("process_trade", trade, process_trade(Self, trade))
        /\ UNCHANGED <<trading, bf2, relation, tlist>>

InitDispatch == Init /\ dump_file

NextDispatch == DispatchTrade

SpecDispatch == InitDispatch /\ [][NextDispatch]_vars

-----------------------------------------------------------------------------
(* Purchases and sales on one exchange: XMR, for which the relation has no  *)
(* price at day 0, is bought and sold for base currency without fee, with a *)
(* fee in XMR and with a fee in base currency, and sold for BTC with a fee  *)
(* in the exchange's own currency BNB                                      *)

\* a Trade whose fee was charged in a third currency. Trade.__init__ raises
\* ValueError for a fee currency that is neither side of the trade, so the
\* fee attributes are set on the object after its construction
NativeFeeTrade(trade, fee_currency, fee_amount) ==
    [trade EXCEPT !.feecur = fee_currency, !.feeval = fee_amount]

SaleTrades(t) ==
    {Trade("Buy", t, "XMR", 3, BaseCurrency, 4, "", 0, "exa"),
     Trade("Buy", t, "BNB", 2, BaseCurrency, 1, "", 0, "exa"),
     Trade("Trade", t, BaseCurrency, 3, "XMR", 2, "", 0, "exa"),
     Trade("Trade", t, BaseCurrency, 3, "XMR", 2, "XMR", 1, "exa"),
     Trade("Trade", t, BaseCurrency, 3, "XMR", 2, BaseCurrency, 1, "exa"),
     NativeFeeTrade(Trade("Trade", t, "BTC", 1, "XMR", 2, "", 0, "exa"),
                    "BNB", 2)}

\* the run goes on until a call raises
MoreSales == call.seq < MaxSale /\ call.exc = ""

SaleTrade ==
    /\ MoreSales
    /\ \E t \in Times : \E trade \in SaleTrades(t) :
        /\ Called("process_trade", trade, process_trade(Self, trade))
        /\ UNCHANGED <<trading, bf2, relation, tlist>>

InitSale == Init /\ dump_file

NextSale == SaleTrade

SpecSale == InitSale /\ [][NextSale]_vars

-----------------------------------------------------------------------------
(* The proceeds of a sale for base currency in the arithmetic of Decimal:   *)
(* every operation rounds its result to the precision of the context, half  *)
(* to even. The sold funds are in one bag.                                  *)

RECURSIVE Pow10(_)
Pow10(k) == IF k = 0 THEN 1 ELSE 10 * Pow10(k - 1)

\* the number of decimal places at which n / d has Precision significant
\* digits before the point
RECURSIVE Shift(_, _, _)
Shift(n, d, k) ==
    IF (n * Pow10(k)) \div d >= Pow10(Precision - 1) THEN k
    ELSE Shift(n, d, k + 1)

\* a value below 10^Precision rounded to Precision significant digits
Quantize(x) ==
    IF x[1] = 0 THEN x
    ELSE LET n == Abs(x[1])
             k == Shift(n, x[2], 0)
             q == (n * Pow10(k)) \div x[2]
             r == (n * Pow10(k)) % x[2]
             up == 2 * r > x[2] \/ (2 * r = x[2] /\ q % 2 = 1)
             c == IF up THEN q + 1 ELSE q
         IN  Frac(IF x[1] < 0 THEN -c ELSE c, Pow10(k))

QAdd(a, b) == Quantize(DAdd(a, b))
QSub(a, b) == Quantize(DSub(a, b))
QMul(a, b) == Quantize(DMul(a, b))
QDiv(a, b) == Quantize(DDiv(a, b))

\* "Get the fee's proportion of traded amount" of process_trade, for a fee
\* in the currency sold or bought
FeeProportion(trade) ==
    IF trade.feeval > 0
    THEN (IF trade.feecur = trade.sellcur
          THEN QDiv(Decimal(trade.feeval), Decimal(trade.sellval))
          ELSE QDiv(Decimal(trade.feeval),
                    QAdd(Decimal(trade.buyval), Decimal(trade.feeval))))
    ELSE DZero

\* rate = trade.buyval / trade.sellval / (1 - fee_p)
TradeRate(trade) ==
    QDiv(QDiv(Decimal(trade.buyval), Decimal(trade.sellval)),
         QSub(DOne, FeeProportion(trade)))

\* the second value that pay returns for the sale, proc * (1 - fee_ratio),
\* where proc is 0 plus spent * rate for the one bag
TotalProceeds(trade) ==
    QMul(QAdd(DZero, QMul(Decimal(trade.sellval), TradeRate(trade))),
         QSub(DOne, FeeProportion(trade)))

\* the sales of XMR for base currency, without fee or with a fee below the
\* whole amount in either currency
BaseSales ==
    {Trade("Trade", 0, BaseCurrency, b, "XMR", s, c, f, "exa") :
        b \in 1..MaxValue, s \in 1..MaxValue, c \in {"XMR", BaseCurrency},
        f \in 0..(MaxValue - 1)}

\* the rate and the proceeds of one sale are computed
SellForBase ==
    /\ call.seq = 0
    /\ \E trade \in BaseSales :
        /\ trade.feecur = trade.sellcur => trade.feeval < trade.sellval
        /\ call' = [op |-> "sale", args |-> trade, pre |-> None,
                    exc |-> "", msg |-> "",
                    ret |-> <<TradeRate(trade), TotalProceeds(trade)>>,
                    saved |-> FALSE, seq |-> 1]
    /\ UNCHANGED <<bags, in_transit, totals, profit, report, last_date, num_created_bags, dump_file, trading, bf2, relation, tlist>>

InitProceeds == Init /\ dump_file

NextProceeds == SellForBase

SpecProceeds == InitProceeds /\ [][NextProceeds]_vars

-----------------------------------------------------------------------------
(* class TradeHistory: csv files of trades are appended to the list, which  *)
(* is sorted after every file; then the list is fed to the engine in its    *)
(* order, as the example's main does. A tick of time is the smallest        *)
(* difference of two timestamps (1 ns).                                     *)

\* a timestamp that does nothing to the sort key
_trade_sort_key_Plain(trade) == trade.dtime

\* TradeHistory._trade_sort_key: 1 ns is added to every deposit
_trade_sort_key(trade) ==
    IF trade.buyval > 0 /\ (trade.sellval = 0 \/ trade.sellcur = "")
    THEN trade.dtime + 1
    ELSE trade.dtime

\* list.sort(key=self._trade_sort_key): a stable sort by the key
RECURSIVE InsertByKey(_, _)
InsertByKey(sorted, trade) ==
    IF sorted = <<>> THEN <<trade>>
    ELSE IF _trade_sort_key(sorted[Len(sorted)]) <= _trade_sort_key(trade)
    THEN Append(sorted, trade)
    ELSE Append(InsertByKey(SubSeq(sorted, 1, Len(sorted) - 1), trade),
                sorted[Len(sorted)])

RECURSIVE SortByKey(_)
SortByKey(lst) ==
    IF lst = <<>> THEN <<>>
    ELSE InsertByKey(SortByKey(SubSeq(lst, 1, Len(lst) - 1)), lst[Len(lst)])

\* the Trade of a line of a file: its comment is the number of the line
\* among all lines imported
Imported(trade, line) ==
    [f \in DOMAIN trade \cup {"comment"} |->
        IF f = "comment" THEN line ELSE trade[f]]

\* the lines of the files: a purchase, a withdrawal and a deposit elsewhere,
\* at any time
HistoryTrades ==
    UNION {{Trade("Buy", t, "BTC", 2, BaseCurrency, 4, "", 0, "exa"),
            Trade("Withdrawal", t, "", 0, "BTC", 1, "", 0, "exa"),
            Trade("Deposit", t, "BTC", 1, "", 0, "", 0, "exb")} :
           t \in 0..MaxTime}

\* the files of up to n lines
CsvFiles(n) == UNION {[1..k -> HistoryTrades] : k \in 1..n}

\* th.append_csv(file_name): the lines are parsed and appended, then the
\* list is sorted
AppendCsv ==
    /\ call.seq = 0
    /\ Len(tlist) < MaxHistory
    /\ \E file \in CsvFiles(MaxHistory - Len(tlist)) :
        tlist' = SortByKey(
                     tlist \o [k \in 1..Len(file) |->
                                  Imported(file[k], Len(tlist) + k)])
    /\ UNCHANGED <<bags, in_transit, totals, profit, report, last_date, num_created_bags, dump_file, call, trading, bf2, relation>>

\* "for i, trade in enumerate(th.tlist[last_trade:])": the next trade of the
\* list is processed; the loop ends when a call raises
FeedTrade ==
    /\ call.seq < Len(tlist)
    /\ call.exc = ""
    /\ Called("process_trade", tlist[call.seq + 1],
              process_trade(Self, tlist[call.seq + 1]))
    /\ UNCHANGED <<trading, bf2, relation, tlist>>

InitHistory == Init /\ dump_file

NextHistory == AppendCsv \/ FeedTrade

SpecHistory == InitHistory /\ [][NextHistory]_vars

-----------------------------------------------------------------------------
(* What the properties below speak about *)

\* the sum of a list of Decimals
RECURSIVE DSum(_)
DSum(seq) ==
    IF seq = <<>> THEN DZero
    ELSE DAdd(DSum(SubSeq(seq, 1, Len(seq) - 1)), seq[Len(seq)])

\* the sum of the values of a dict of Decimals (the accumulated profit)
RECURSIVE DSumDict(_)
DSumDict(d) ==
    IF DOMAIN d = {} THEN DZero
    ELSE LET k == CHOOSE x \in DOMAIN d : TRUE
         IN  DAdd(d[k], DSumDict(Del(d, k)))

\* the sum of `amount` over the bags of a currency in a list of bags
RECURSIVE SumAmount(_, _)
SumAmount(lst, currency) ==
    IF lst = <<>> THEN 0
    ELSE SumAmount(SubSeq(lst, 1, Len(lst) - 1), currency)
         + (IF lst[Len(lst)].currency = currency THEN lst[Len(lst)].amount
            ELSE 0)

\* totals[key][currency], a missing entry counting as 0
TotalOf(tot, key, currency) == Get(Get(tot, key, EmptyDict), currency, 0)

\* the amount of the bag with an id in a list of bags, 0 when it is gone
AmountById(lst, id) ==
    LET S == {j \in 1..Len(lst) : lst[j].id = id}
    IN  IF S = {} THEN 0 ELSE lst[CHOOSE j \in S : TRUE].amount

AllCurrencies == Currencies \cup {BaseCurrency}
Exchanges == {"Exa", "Exb"}

\* the PaymentReports the last call added to the ledger
NewEntries == SubSeq(report, Len(call.pre.report) + 1, Len(report))

\* the last call was a pay that returned
PayCall == call.op = "pay" /\ call.exc = "" /\ call.args.amount > 0

\* the last call was process_trade and took the given branch
TradeCall(intent) ==
    /\ call.op = "process_trade"
    /\ call.args.dtime >= call.pre.last_date
    /\ Intent(call.pre, call.args) = intent

\* the last call was a withdrawal (withdraw, or process_trade of a
\* withdrawal) and its arguments
WithdrawCall == call.op = "withdraw" \/ TradeCall("withdraw")
WithdrawArgs ==
    IF call.op = "withdraw"
    THEN [currency |-> call.args.currency, amount |-> call.args.amount,
          fee |-> call.args.fee, exchange |-> capitalize(call.args.exchange)]
    ELSE [currency |-> call.args.sellcur, amount |-> call.args.sellval,
          fee |-> call.args.feeval,
          exchange |-> capitalize(call.args.exchange)]

\* the last call was a deposit (deposit, or process_trade of a deposit) in
\* time order, and its arguments
DepositCall ==
    \/ call.op = "deposit" /\ call.args.dtime >= call.pre.last_date
    \/ TradeCall("deposit")
DepositArgs ==
    IF call.op = "deposit"
    THEN [currency |-> call.args.currency, amount |-> call.args.amount,
          fee |-> call.args.fee, exchange |-> capitalize(call.args.exchange)]
    ELSE [currency |-> call.args.buycur, amount |-> call.args.buyval,
          fee |-> call.args.feeval,
          exchange |-> capitalize(call.args.exchange)]

-----------------------------------------------------------------------------
(* Properties *)

\* C1 (conservation): after every successfully processed trade, for every
\* exchange e and currency c the amounts of the bags of c in bags[e] sum to
\* totals[e][c], and the amounts of the bags in in_transit[c] sum to
\* totals['in_transit'][c], a missing totals entry counting as 0.
C1_Conservation ==
    (call.op = "process_trade" /\ call.exc = "") =>
        /\ \A e \in Exchanges, c \in AllCurrencies :
               SumAmount(Get(bags, e, <<>>), c) = TotalOf(totals, e, c)
        /\ \A c \in AllCurrencies :
               SumAmount(Get(in_transit, c, <<>>), c)
                   = TotalOf(totals, "in_transit", c)
        /\ DOMAIN bags \subseteq Exchanges
        /\ DOMAIN totals \subseteq Exchanges \cup {"in_transit"}

\* a trade succeeded and left bags of two currencies on an exchange, bags on
\* a second exchange and bags in transit
C1_Witness ==
    /\ call.op = "process_trade" /\ call.exc = ""
    /\ TotalOf(totals, "Exa", "BTC") > 0
    /\ TotalOf(totals, "Exa", "XMR") > 0
    /\ TotalOf(totals, "in_transit", "BTC") > 0

\* C2 (FIFO disposal): after pay(time, c, a, e) returns, every bag of c on e
\* that was fully or partly spent was acquired no later than every bag of c
\* on e that was not touched, at most one bag is left partly spent, the
\* amounts spent sum to a, and the bags of other currencies on e are
\* unchanged.
C2_FIFODisposal ==
    PayCall =>
        LET e == capitalize(call.args.exchange)
            c == call.args.currency
            pre == Get(call.pre.bags, e, <<>>)
            post == Get(bags, e, <<>>)
            mine == {j \in 1..Len(pre) : pre[j].currency = c}
            spent(j) == pre[j].amount - AmountById(post, pre[j].id)
        IN  /\ \A j \in mine, k \in mine :
                   spent(j) > 0 /\ spent(k) = 0
                       => pre[j].dtime <= pre[k].dtime
            /\ Cardinality({j \in mine :
                   0 < spent(j) /\ spent(j) < pre[j].amount}) <= 1
            /\ \A j \in mine : spent(j) >= 0
            /\ SumAmount(pre, c) - SumAmount(post, c) = call.args.amount
            /\ \A j \in (1..Len(pre)) \ mine :
                   \E k \in 1..Len(post) : post[k] = pre[j]
            /\ \A k \in 1..Len(post) :
                   \E j \in 1..Len(pre) : pre[j].id = post[k].id
            /\ \A x \in DOMAIN call.pre.bags \ {e} :
                   x \in DOMAIN bags /\ bags[x] = call.pre.bags[x]

\* a pay spent one bag whole, skipped a bag of another currency, and left a
\* later bag partly spent
C2_Witness ==
    /\ PayCall
    /\ LET pre == call.pre.bags["Exa"]
           post == Get(bags, "Exa", <<>>)
       IN  \E i, j, k \in 1..Len(pre) :
               /\ i < j /\ j < k
               /\ pre[i].currency = "BTC" /\ AmountById(post, pre[i].id) = 0
               /\ pre[j].currency = "XMR"
               /\ pre[k].currency = "BTC" /\ pre[k].dtime > pre[i].dtime
               /\ AmountById(post, pre[k].id) > 0
               /\ AmountById(post, pre[k].id) < pre[k].amount

C7_DepositShortage ==
    LET d == DepositArgs
        c == d.currency
        T == SumAmount(Get(call.pre.in_transit, c, <<>>), c)
        post == Get(bags, d.exchange, <<>>)
    IN  (/\ DepositCall
         /\ d.amount > 0 /\ c # BaseCurrency /\ d.fee = 0
         /\ T < d.amount) =>
            /\ call.exc = ""
            /\ Get(in_transit, c, <<>>) = <<>>
            /\ \E k \in 1..Len(post) :
                   /\ post[k].id = num_created_bags
                   /\ post[k].id > call.pre.num_created_bags
                   /\ post[k].currency = c
                   /\ post[k].amount = d.amount - T
                   /\ post[k].cost = DZero
                   /\ post[k].dtime = call.args.dtime
            /\ TotalOf(totals, d.exchange, c)
                   = TotalOf(call.pre.totals, d.exchange, c) + d.amount
            /\ ~Has(Get(totals, "in_transit", EmptyDict), c)

\* C8 (long-term exclusion): a slice that pay drains from a bag acquired
\* one year or more before the disposal is reported with short_term =
\* false, a slice from a younger bag with short_term = true; the returned
\* short_term_profit is the sum of the profits of the younger slices only,
\* the returned total_proceeds holds the fee-corrected proceeds of every
\* slice, and a trade adds to the profit of the years only the profits of
\* the younger slices.
C8_LongTermExclusion ==
    LET new == NewEntries
        n == Len(new)
        old(j) == new[j].sell_date - new[j].bag_date >= YearLen
        young == DSum([j \in 1..n |->
                     IF old(j) THEN DZero ELSE new[j].profit])
    IN  /\ (call.op # "__init__" /\ call.exc = "") =>
               \A j \in 1..n :
                   /\ new[j].short_term = ~old(j)
                   /\ new[j].proceeds =
                          DMul(DMul(Decimal(new[j].bag_spent),
                                    new[j].ex_rate),
                               DSub(DOne, new[j].fee_ratio))
        /\ PayCall =>
               /\ call.ret[1] = young
               /\ call.ret[2] = DSum([j \in 1..n |-> new[j].proceeds])
               /\ profit = call.pre.profit
        /\ (call.op \in {"process_trade", "withdraw", "deposit"}
                /\ call.exc = "") =>
               DSub(DSumDict(profit), DSumDict(call.pre.profit)) = young

\* a pay drained a bag acquired exactly one year before, with a gain that
\* is not in the returned short_term_profit
C8_Witness ==
    /\ PayCall
    /\ \E j \in 1..Len(NewEntries) :
           /\ NewEntries[j].sell_date - NewEntries[j].bag_date = YearLen
           /\ ~NewEntries[j].short_term
           /\ NewEntries[j].profit # DZero
           /\ NewEntries[j].proceeds # DZero
    /\ call.ret[1] # call.ret[2]

\* C9 (monotonic time): no call of process_trade, buy_with_base_currency,
\* withdraw, deposit or pay, returning or raising, leaves last_date earlier
\* than it found it.
C9_MonotonicTime ==
    call.op # "__init__" => last_date >= call.pre.last_date

\* each of the five methods was called with a time before last_date, and
\* with a later one
C9_Witness ==
    /\ call.op \in {"process_trade", "buy_with_base_currency", "withdraw",
                    "deposit", "pay"}
    /\ call.args.dtime < call.pre.last_date
    /\ call.exc # ""
    /\ last_date > 0

\* C10 (time order of trades): a trade whose time is earlier than
\* last_date is rejected with the ordering error (ValueError) and bags,
\* in_transit, totals, profit, the ledger and last_date are as before; a
\* trade whose time equals last_date is not rejected for its time.
C10_OrderingRejection ==
    call.op = "process_trade" =>
        /\ call.args.dtime < call.pre.last_date =>
               /\ call.exc = "ValueError" /\ call.msg = "order"
               /\ bags = call.pre.bags
               /\ in_transit = call.pre.in_transit
               /\ totals = call.pre.totals
               /\ profit = call.pre.profit
               /\ report = call.pre.report
               /\ last_date = call.pre.last_date
        /\ call.args.dtime = call.pre.last_date =>
               ~(call.msg \in {"order", "open(None)"}
                     /\ bags = call.pre.bags /\ profit = call.pre.profit)

\* the last call was a direct pay or withdraw, in time order, of a positive
\* amount of a foreign currency that exceeds what the exchange holds
InsufficientCall ==
    /\ call.op \in {"pay", "withdraw"}
    /\ call.args.dtime >= call.pre.last_date
    /\ call.args.amount > 0
    /\ call.args.currency # BaseCurrency
    /\ call.args.amount > TotalOf(call.pre.totals,
                                  capitalize(call.args.exchange),
                                  call.args.currency)

\* C11 (insufficient funds): pay and withdraw called with an amount greater
\* than totals[exchange][currency], or for an exchange that holds no bags,
\* are rejected with a ValueError after the snapshot is written, and the
\* rejection changes no bag, no in-transit bag, no totals entry, no ledger
\* entry and no profit amount.
C11_InsufficientFunds ==
    InsufficientCall =>
        /\ call.exc = "ValueError"
        /\ call.saved
        /\ bags = call.pre.bags
        /\ in_transit = call.pre.in_transit
        /\ totals = call.pre.totals
        /\ report = call.pre.report
        /\ profit = call.pre.profit

\* the second engine has the same bags, in_transit, totals, profit,
\* last_date, bag counter and ledger as the given engine
SameState(e) ==
    /\ bf2.self.bags = e.bags
    /\ bf2.self.in_transit = e.in_transit
    /\ bf2.self.totals = e.totals
    /\ bf2.self.profit = e.profit
    /\ bf2.self.last_date = e.last_date
    /\ bf2.self.num_created_bags = e.num_created_bags
    /\ bf2.self.report = e.report

\* C12 (snapshot round trip): for every engine state reachable by processing
\* trades, saving it and loading it into a fresh engine with the same base
\* currency succeeds and reproduces exactly the bags of every exchange (same
\* order, every field), the bags in transit, totals, the profit by year,
\* last_date, the bag-id counter and the ledger.
C12_SnapshotRoundTrip ==
    call.op = "load" => call.exc = "" /\ SameState(call.pre)

\* C13 (resume equivalence): after a saved state was restored into a second
\* engine, processing the same further trades on both engines leaves them,
\* after every trade, with identical bags, in_transit, totals, profit,
\* last_date, bag-id counter and ledger.
C13_ResumeEquivalence ==
    (bf2.restored /\ call.op = "process_trade") => SameState(Self)

\* the last call loaded a file that is not what the engine saved; the
\* content of the file
FileCall == call.op = "load_file"
FileData == json_load(call.args.js)

\* the totals stored in a file disagree with the totals recomputed from its
\* bags
TotalsDisagree(d) ==
    \/ \E ex \in (DOMAIN d.bags) \cup ((DOMAIN d.totals) \ {"in_transit"}) :
           \E c \in Currencies :
               SumAmount(Get(d.bags, ex, <<>>), c) # TotalOf(d.totals, ex, c)
    \/ \E c \in Currencies :
           SumAmount(Get(d.in_transit, c, <<>>), c)
               # TotalOf(d.totals, "in_transit", c)

\* a bag in a file, on an exchange or in transit, has a cost_currency other
\* than the base currency of the loading engine
WrongCostCurrency(d) ==
    \/ \E ex \in DOMAIN d.bags : \E i \in 1..Len(d.bags[ex]) :
           d.bags[ex][i].cost_currency # BaseCurrency
    \/ \E c \in DOMAIN d.in_transit : \E i \in 1..Len(d.in_transit[c]) :
           d.in_transit[c][i].cost_currency # BaseCurrency

\* C14 (load validation): load raises an error whenever the totals
\* recomputed from the file's non-empty bags, per exchange and in transit,
\* disagree with the file's stored totals, or any bag in the file has a
\* cost_currency different from the base currency the loading engine was
\* configured with.
C14_LoadRejects ==
    (FileCall /\ (TotalsDisagree(FileData) \/ WrongCostCurrency(FileData)))
        => call.exc # ""

-----------------------------------------------------------------------------
(* Properties of the recipes *)

\* the keys of a dict
Keys(d) == {d[i].key : i \in 1..Len(d)}
\* the direct pairs of the relation
Direct == {relation.historic_prices[i] :
              i \in 1..Len(relation.historic_prices)}
\* a pair of the set D links u and v, in either direction
Linked(D, u, v) == <<u, v>> \in D \/ <<v, u>> \in D

\* the currencies one pair of D away from a currency of the set near
Grown(D, near) ==
    near \cup {v \in RelCurrencies : \E w \in near : Linked(D, w, v)}

\* k plus the number of pairs of D on the shortest path from the set near
\* to v, each usable in either direction; -1 when there is no path
RECURSIVE Steps(_, _, _, _)
Steps(D, near, v, k) ==
    LET next == Grown(D, near)
    IN  IF v \in near THEN k
        ELSE IF next = near THEN -1
        ELSE Steps(D, next, v, k + 1)

\* the length of the shortest path of direct pairs between u and v
Distance(u, v) == Steps(Direct, {u}, v, 0)
\* u and v are connected by a path of direct pairs
Connected(u, v) == Distance(u, v) >= 0

\* the last call added data for a direct pair
AddedPair == call.op = "add_historic_data" /\ call.exc = ""

\* C15 (recipe minimality): after any sequence of direct-pair insertions,
\* for every pair (u, v) in recipes the stored num_steps is the length of
\* the shortest path between u and v over the direct pairs, each usable in
\* either direction; and after a direct pair (b, q) is added, the recipes of
\* (b, q) and (q, b) have exactly one step, even if a longer recipe was
\* stored before.
C15_RecipeMinimality ==
    /\ \A i \in 1..Len(relation.recipes) :
           /\ relation.recipes[i].value.num_steps >= 1
           /\ relation.recipes[i].value.num_steps
                  = Distance(relation.recipes[i].key[1],
                             relation.recipes[i].key[2])
    /\ AddedPair =>
           /\ In(relation.recipes, call.args.key)
           /\ In(relation.recipes, PairReversed(call.args.key))
           /\ Item(relation.recipes, call.args.key).num_steps = 1
           /\ Len(Item(relation.recipes, call.args.key).recipe_steps) = 1
           /\ Item(relation.recipes, PairReversed(call.args.key)).num_steps = 1
           /\ Len(Item(relation.recipes,
                       PairReversed(call.args.key)).recipe_steps) = 1

\* a direct pair was added for which a recipe of three steps was stored
C15_Witness ==
    /\ AddedPair
    /\ In(call.pre.recipes, call.args.key)
    /\ Item(call.pre.recipes, call.args.key).num_steps = 3
    /\ Item(relation.recipes, call.args.key).num_steps = 1

\* C16 (recipe completeness): after any sequence of direct-pair insertions,
\* recipes has an entry for (u, v) exactly when u # v and u and v are
\* connected by a path of direct pairs, each usable in either direction.
C16_RecipeCompleteness ==
    Keys(relation.recipes)
        = {p \in RelCurrencies \X RelCurrencies :
              p[1] # p[2] /\ Connected(p[1], p[2])}

\* a pair was added that bridges the groups {A, B} and {C, D}, which gave a
\* recipe to the cross-group pair (A, D); or two groups stay unconnected
C16_Witness ==
    /\ AddedPair
    /\ call.args.key \in {<<"B", "C">>, <<"C", "B">>}
    /\ In(call.pre.recipes, <<"A", "B">>)
    /\ In(call.pre.recipes, <<"C", "D">>)
    /\ ~In(call.pre.recipes, <<"A", "D">>)
    /\ In(relation.recipes, <<"A", "D">>)
    /\ In(relation.recipes, <<"D", "A">>)

\* the steps of a recipe in reversed order, each with its flag flipped
Mirrored(steps) ==
    [i \in 1..Len(steps) |->
        <<steps[Len(steps) + 1 - i][1], steps[Len(steps) + 1 - i][2],
          ~steps[Len(steps) + 1 - i][3]>>]

\* C17 (recipe reversibility): in every state of the relation, for every
\* pair p in recipes, reverse(p) is in recipes too and its recipe is the
\* recipe of p with the step order reversed and every reciprocal flag
\* flipped (same num_steps), so that at any time its rate is the reciprocal
\* of the rate of recipes[p].
C17_RecipeReversibility ==
    \A i \in 1..Len(relation.recipes) :
        LET p == relation.recipes[i].key
            r == relation.recipes[i].value
            back == Item(relation.recipes, PairReversed(p))
        IN  /\ In(relation.recipes, PairReversed(p))
            /\ back.num_steps = r.num_steps
            /\ back.recipe_steps = Mirrored(r.recipe_steps)
            /\ \A t \in 0..MaxTime :
                   DMul(RecipeRate(relation, t, p).ret,
                        RecipeRate(relation, t, PairReversed(p)).ret) = DOne

\* a recipe of several steps, some reciprocal and some not, is stored
C17_Witness ==
    \E i \in 1..Len(relation.recipes) :
        /\ relation.recipes[i].value.num_steps >= 2
        /\ \E j \in 1..Len(relation.recipes[i].value.recipe_steps) :
               relation.recipes[i].value.recipe_steps[j][3]
        /\ \E j \in 1..Len(relation.recipes[i].value.recipe_steps) :
               ~relation.recipes[i].value.recipe_steps[j][3]
        /\ RecipeRate(relation, 0, relation.recipes[i].key).ret # DOne

\* the map pair -> num_steps of a dict of recipes
Lengths(d) == [p \in Keys(d) |-> Item(d, p).num_steps]
\* the direct pairs of the relation in the fixed order of DirectPairs
InFixedOrder == SelectSeq(DirectPairs, LAMBDA p : p \in Direct)

\* C18 (order independence): for any set of direct pairs, inserting them one
\* at a time with add_historic_data in any order yields the same set of
\* (pair -> num_steps) entries in recipes as a full rebuild from the same
\* set.
C18_OrderIndependence ==
    /\ Lengths(relation.recipes)
           = Lengths(update_available_pairs(
                         [historic_prices |-> InFixedOrder,
                          recipes |-> <<>>], None).self.recipes)
    /\ Lengths(relation.recipes)
           = Lengths(update_available_pairs(relation, None).self.recipes)

\* three or more pairs were inserted one at a time, in another order than
\* the fixed one, and gave recipes of several steps
C18_Witness ==
    /\ AddedPair
    /\ Len(relation.historic_prices) >= 3
    /\ relation.historic_prices # InFixedOrder
    /\ \E i \in 1..Len(relation.recipes) :
           relation.recipes[i].value.num_steps >= 3

\* the currency reached by walking the steps from x: a step that is not
\* reciprocal goes from its base to its quote, a reciprocal step from its
\* quote to its base; "?" when a step does not start where the walk is
RECURSIVE WalkEnd(_, _)
WalkEnd(steps, x) ==
    IF steps = <<>> THEN x
    ELSE IF ~Head(steps)[3] /\ Head(steps)[1] = x
    THEN WalkEnd(Tail(steps), Head(steps)[2])
    ELSE IF Head(steps)[3] /\ Head(steps)[2] = x
    THEN WalkEnd(Tail(steps), Head(steps)[1])
    ELSE "?"

\* the product of the direct rates along the walk from x: the rate of a
\* direct pair when it is walked from base to quote, its reciprocal when it
\* is walked from quote to base
RECURSIVE WalkRate(_, _, _)
WalkRate(steps, x, t) ==
    IF steps = <<>> THEN DOne
    ELSE IF Head(steps)[1] = x
    THEN DMul(get_price(<<Head(steps)[1], Head(steps)[2]>>, t),
              WalkRate(Tail(steps), Head(steps)[2], t))
    ELSE DMul(DDiv(DOne, get_price(<<Head(steps)[1], Head(steps)[2]>>, t)),
              WalkRate(Tail(steps), Head(steps)[1], t))

\* C19 (recipes are conversion chains): every stored recipe for a pair
\* (u, v) has steps that each name a direct pair of the relation, walking
\* the steps from u ends at v, num_steps is the number of steps, and the
\* rate of (u, v) is the product of the direct rates, or their reciprocals,
\* along that walk; two direct pairs A-B and B-C or C-B give a recipe of two
\* steps for (A, C).
C19_RecipeChain ==
    /\ \A i \in 1..Len(relation.recipes) :
           LET p == relation.recipes[i].key
               r == relation.recipes[i].value
           IN  /\ r.num_steps = Len(r.recipe_steps)
               /\ \A j \in 1..Len(r.recipe_steps) :
                      <<r.recipe_steps[j][1], r.recipe_steps[j][2]>> \in Direct
               /\ WalkEnd(r.recipe_steps, p[1]) = p[2]
               /\ \A t \in 0..MaxTime :
                      RecipeRate(relation, t, p).ret
                          = WalkRate(r.recipe_steps, p[1], t)
    /\ (/\ <<"A", "B">> \in Direct
        /\ <<"B", "C">> \in Direct \/ <<"C", "B">> \in Direct
        /\ ~Linked(Direct, "A", "C"))
           => /\ In(relation.recipes, <<"A", "C">>)
              /\ Item(relation.recipes, <<"A", "C">>).num_steps = 2

\* the pairs A/B and C/B were given and the recipe for (A, C) is A/B
\* followed by the reciprocal of C/B
C19_Witness ==
    /\ Direct = {<<"A", "B">>, <<"C", "B">>}
    /\ In(relation.recipes, <<"A", "C">>)
    /\ Item(relation.recipes, <<"A", "C">>)
           = Recipe(2, <<RecipeStep("A", "B", FALSE),
                         RecipeStep("C", "B", TRUE)>>)
    /\ Item(relation.recipes, <<"C", "A">>)
           = Recipe(2, <<RecipeStep("C", "B", FALSE),
                         RecipeStep("A", "B", TRUE)>>)

-----------------------------------------------------------------------------
(* Properties of the split in _move_bags *)

\* the index of the leading bag of a currency in a list that has one
Leading(lst, currency) ==
    CHOOSE i \in 1..Len(lst) :
        /\ lst[i].currency = currency
        /\ \A j \in 1..(i - 1) : lst[j].currency # currency

HasBag(lst, currency) == \E i \in 1..Len(lst) : lst[i].currency = currency

\* the leading bag of the currency in src holds more than the amount r
NeedsSplit(src, currency, r) ==
    /\ r > 0
    /\ HasBag(src, currency)
    /\ src[Leading(src, currency)].amount > r

\* src2 and dest2 are src and dest after r of the leading bag of the
\* currency was split off: the bag keeps its place with amount A - r and
\* cost C - r * (C / A), the new bag is the last of dest2 with the id
\* num + 1, the amount r, the cost r * (C / A) and the bag's date, currency
\* and cost currency, both have the price C / A, and nothing else changed
IsSplit(src, dest, num, currency, r, src2, dest2, num2) ==
    LET i == Leading(src, currency)
        A == src[i].amount
        C == src[i].cost
        p == DDiv(C, Decimal(A))
        part == DMul(Decimal(r), p)
        new == dest2[Len(dest2)]
    IN  /\ Len(src2) = Len(src)
        /\ \A j \in 1..Len(src) : j # i => src2[j] = src[j]
        /\ src2[i].amount = A - r
        /\ src2[i].cost = DSub(C, part)
        /\ src2[i].id = src[i].id
        /\ src2[i].dtime = src[i].dtime
        /\ src2[i].currency = src[i].currency
        /\ src2[i].cost_currency = src[i].cost_currency
        /\ src2[i].price = p
        /\ Len(dest2) = Len(dest) + 1
        /\ SubSeq(dest2, 1, Len(dest)) = dest
        /\ new.id = num + 1
        /\ num2 = num + 1
        /\ \A j \in 1..Len(src) : src[j].id # new.id
        /\ \A j \in 1..Len(dest) : dest[j].id # new.id
        /\ new.amount = r
        /\ new.cost = part
        /\ new.dtime = src[i].dtime
        /\ new.currency = src[i].currency
        /\ new.cost_currency = src[i].cost_currency
        /\ new.price = p
        /\ DAdd(src2[i].cost, new.cost) = C

\* a call of _move_bags with the lists of a state of the engine
MovesSplit(src, dest, num, currency, r) ==
    LET mv == _move_bags(src, dest, num, r, currency)
    IN  NeedsSplit(src, currency, r)
            => /\ mv.exc = ""
               /\ mv.to_move = 0
               /\ IsSplit(src, dest, num, currency, r,
                          mv.src, mv.dest, mv.num)

\* the last call was a withdrawal without fee that returned, from an
\* exchange whose leading bag of the currency held more than the amount
SplitCall ==
    /\ call.op = "process_trade"
    /\ call.exc = ""
    /\ call.args.kind = "Withdrawal"
    /\ call.args.feeval = 0
    /\ Has(call.pre.bags, capitalize(call.args.exchange))
    /\ NeedsSplit(call.pre.bags[capitalize(call.args.exchange)],
                  call.args.sellcur, call.args.sellval)

-----------------------------------------------------------------------------
(* Properties of the bags' cost, amount and price *)

\* the bags of a dict of bag lists
BagsOf(d) == UNION {{d[k][i] : i \in 1..Len(d[k])} : k \in DOMAIN d}
\* every bag an engine holds, on an exchange or in transit
HeldBags(e) == BagsOf(e.bags) \cup BagsOf(e.in_transit)

\* cost = amount * price
Coupled(bag) == bag.cost = DMul(Decimal(bag.amount), bag.price)

\* every bag of the engine after that has the id of a bag of the engine
\* before has that bag's price
PricesKept(before, after) ==
    \A b \in HeldBags(after) : \A a \in HeldBags(before) :
        a.id = b.id => a.price = b.price

\* C21 (cost-amount coupling): after every operation (purchase, partial or
\* full spend by pay, split and move by withdraw or deposit, restore from a
\* snapshot) every bag held on an exchange or in transit has
\* cost = amount * price exactly, and its price is the one it had when it
\* was created: an operation leaves the price of every bag it keeps as it
\* was.
C21_CostAmountCoupling ==
    /\ \A b \in HeldBags(Self) : Coupled(b)
    /\ call.pre # None => PricesKept(call.pre, Self)

\* a bag bought for a price that is no whole number was partly spent, split
\* on its way to another exchange, and the engine was restored from its
\* snapshot
C21_Witness ==
    /\ call.op = "load"
    /\ call.exc = ""
    /\ \E b \in HeldBags(Self) :
           /\ b.price = Frac(4, 3)
           /\ b.cost = Frac(4, 3)
    /\ \E a \in BagsOf(in_transit) : \E b \in BagsOf(bags) :
           /\ a.id # b.id
           /\ a.price = b.price
           /\ a.dtime = b.dtime

\* C22 (tie-break): when data for a direct pair is added, a recipe that was
\* stored for a pair is replaced only by a recipe with strictly fewer
\* steps; a candidate with the same number of steps leaves the stored
\* recipe, and that of the reversed pair, unchanged.
C22_TieBreak ==
    AddedPair =>
        \A i \in 1..Len(call.pre.recipes) :
            LET p == call.pre.recipes[i].key
                old == call.pre.recipes[i].value
            IN  \/ Item(relation.recipes, p) = old
                \/ Item(relation.recipes, p).num_steps < old.num_steps

-----------------------------------------------------------------------------
(* Properties of transfers between exchanges *)

\* the bags of a currency in transit in an engine
InTransit(e, currency) ==
    IF Has(e.in_transit, currency)
    THEN {e.in_transit[currency][i] : i \in 1..Len(e.in_transit[currency])}
    ELSE {}

\* the last call processed a deposit and returned
DepositTrade ==
    /\ call.op = "process_trade"
    /\ call.exc = ""
    /\ Intent(call.pre, call.args) = "deposit"
    /\ call.args.buyval > 0

\* the bags in transit that the last call moved, fully or partly: they are
\* gone from in_transit or are left there with a smaller amount
MovedFromTransit(currency) ==
    {a \in InTransit(call.pre, currency) :
        ~\E b \in InTransit(Self, currency) :
            b.id = a.id /\ b.amount = a.amount}

\* C23: a deposit takes the funds out of transit oldest first. After any
\* withdrawals from several exchanges, every bag in transit that a deposit
\* moves to the exchange, fully or partly, was acquired no later than every
\* bag of the currency that remains in transit.
C23_DepositOldestFirst ==
    DepositTrade =>
        \A a \in MovedFromTransit(call.args.buycur) :
            \A b \in InTransit(Self, call.args.buycur) :
                a.dtime <= b.dtime

-----------------------------------------------------------------------------
(* Properties of the dispatcher of process_trade *)

\* the intent of a trade by the decision table, first matching rule: (1)
\* buy with base, (2) fee only or nothing, (3) withdrawal, (4) deposit, (5)
\* sale
TableIntent(base, trade) ==
    IF \/ trade.sellcur = base /\ trade.sellval > 0
       \/ upper(trade.kind) = "DISTRIBUTION" /\ trade.sellval = 0
    THEN "buy"
    ELSE IF /\ (trade.buyval = 0 \/ trade.buycur = "")
            /\ (trade.sellval = 0 \/ trade.sellcur = "")
    THEN "fee"
    ELSE IF /\ upper(trade.kind) # "PAYMENT"
            /\ (trade.buycur = "" \/ trade.buyval = 0)
    THEN "withdraw"
    ELSE IF trade.sellcur = "" \/ trade.sellval = 0
    THEN "deposit"
    ELSE "sale"

\* C24 (dispatch): process_trade classifies every trade into exactly one
\* intent by the first matching rule of the decision table, for every
\* exchange name and every kind: (1) buy with base, (2) fee only or nothing
\* when both sides are empty or zero, (3) withdrawal whenever the kind is
\* not 'payment' and the buy currency is empty or the buy amount is 0, (4)
\* deposit when the sell currency is empty or the sell amount is 0, (5) sale
\* otherwise.
C24_Dispatch ==
    call.op = "process_trade" =>
        Intent(call.pre, call.args) = TableIntent(call.pre.currency, call.args)

\* a trade with a buy currency and buy amount 0 on the exchange named
\* exactly 'Poloniex', of a kind other than exactly 'Withdrawal' (an amount
\* bought that the exchange's file rounded down to 0)
RoundedDown(trade) ==
    /\ trade.buycur # ""
    /\ trade.buyval = 0
    /\ trade.exchange = "Poloniex"
    /\ trade.kind # "Withdrawal"

\* the intent by the decision table whose rule (3) does not apply to a
\* trade rounded down
AmendedIntent(base, trade) ==
    IF TableIntent(base, trade) = "withdraw" /\ RoundedDown(trade)
    THEN (IF trade.sellcur = "" \/ trade.sellval = 0 THEN "deposit"
          ELSE "sale")
    ELSE TableIntent(base, trade)

\* C24 as amended: process_trade classifies every trade into exactly one
\* intent by the first matching rule of the decision table, except that
\* rule (3) does not apply to a trade on the exchange named exactly
\* 'Poloniex' that has a buy currency, buy amount 0 and a kind other than
\* exactly 'Withdrawal': such a trade goes on to rules (4) and (5).
C24_DispatchAmended ==
    call.op = "process_trade" =>
        Intent(call.pre, call.args)
            = AmendedIntent(call.pre.currency, call.args)

\* a trade on 'Poloniex' with buy amount 0 was handled as a sale, and the
\* same trade's kind in small letters does not make it a withdrawal
C24_Witness ==
    /\ call.op = "process_trade"
    /\ RoundedDown(call.args)
    /\ call.args.kind = "withdrawal"
    /\ call.args.sellval > 0
    /\ Intent(call.pre, call.args) = "sale"
    /\ call.msg = "no funds on exchange"

-----------------------------------------------------------------------------
(* Properties of sales *)

\* the entries of a kind that the last call added to the ledger
NewOfKind(kind) == SelectSeq(NewEntries, LAMBDA e : e.kind = kind)

\* the sum of a field of Decimals over a list of entries
RECURSIVE SumOf(_, _)
SumOf(entries, field) ==
    IF entries = <<>> THEN DZero
    ELSE DAdd(Head(entries)[field], SumOf(Tail(entries), field))

\* the sum of the whole amounts spent over a list of entries
RECURSIVE SpentOf(_)
SpentOf(entries) ==
    IF entries = <<>> THEN 0
    ELSE Head(entries).bag_spent + SpentOf(Tail(entries))

\* the last call processed a sale with a fee in a third currency and
\* returned
NativeFeeSale ==
    /\ TradeCall("sale")
    /\ call.exc = ""
    /\ call.args.feeval > 0
    /\ call.args.feecur \notin {call.args.sellcur, call.args.buycur}

\* the fee of the last call's trade in units of the currency sold
ConvertedFee ==
    DMul(Decimal(call.args.feeval),
         get_rate(call.args.dtime, call.args.feecur, call.args.sellcur))

\* C25: for a sale whose fee is charged in a third currency, the fee ratio
\* of the sale is converted_fee / (sell_amount + converted_fee), where
\* converted_fee is fee_amount times the rate from the fee currency to the
\* sell currency at the time of the trade; and the fee amount is drained
\* from the exchange's bags of the fee currency by a separate pay with fee
\* ratio 1 and kind 'exchange fee'.
C25_NativeFee ==
    NativeFeeSale =>
        /\ NewOfKind("sale") # <<>>
        /\ \A i \in 1..Len(NewOfKind("sale")) :
               NewOfKind("sale")[i].fee_ratio
                   = DDiv(ConvertedFee,
                          DAdd(Decimal(call.args.sellval), ConvertedFee))
        /\ NewOfKind("exchange fee") # <<>>
        /\ \A i \in 1..Len(NewOfKind("exchange fee")) :
               /\ NewOfKind("exchange fee")[i].fee_ratio = DOne
               /\ NewOfKind("exchange fee")[i].currency = call.args.feecur
        /\ SpentOf(NewOfKind("exchange fee")) = call.args.feeval

-----------------------------------------------------------------------------
(* Properties of the engine without a snapshot file *)

\* the last call was made on an engine created without a snapshot path and
\* fails validation: its time is before the last call's, or it is a pay or
\* withdraw of more than the exchange holds
FailsValidation ==
    /\ call.seq > 0
    /\ ~call.pre.dump_file
    /\ \/ call.args.dtime < call.pre.last_date
       \/ InsufficientCall

\* C26: when the engine is created without a snapshot path, a validation
\* failure (a trade out of order, insufficient funds, ...) is still reported
\* as the validation error, a ValueError with the diagnostic message; only
\* the write of the snapshot is skipped.
C26_AbortWithoutSnapshot ==
    FailsValidation =>
        /\ call.exc = "ValueError"
        /\ call.msg \in {"order", "insufficient", "no funds on exchange"}
        /\ ~call.saved

-----------------------------------------------------------------------------
(* Properties of the order of the bags on an exchange *)

\* a list of bags is in ascending order of acquisition
Sorted(lst) == \A i \in 1..(Len(lst) - 1) : lst[i].dtime <= lst[i + 1].dtime

\* the place of the bag with an id in a list, 0 when it is not there
Position(lst, id) ==
    IF \E i \in 1..Len(lst) : lst[i].id = id
    THEN CHOOSE i \in 1..Len(lst) : lst[i].id = id
    ELSE 0

\* the order the bags of an exchange had before the last call: the bags on
\* the exchange, then the bags in transit that a deposit appends
SourceOrder(ex) ==
    Get(call.pre.bags, ex, <<>>)
        \o (IF call.op = "process_trade"
            THEN Get(call.pre.in_transit, call.args.buycur, <<>>)
            ELSE <<>>)

\* the bags of equal times on an exchange are in the order they had before
\* the last call
EqualTimesKeepOrder(ex) ==
    LET now == Self.bags[ex]
        src == SourceOrder(ex)
    IN  \A i, j \in 1..Len(now) :
            /\ i < j
            /\ now[i].dtime = now[j].dtime
            /\ Position(src, now[i].id) > 0
            /\ Position(src, now[j].id) > 0
            => Position(src, now[i].id) < Position(src, now[j].id)

\* C27: in every state reached by processing trades, the bag list of every
\* exchange is sorted by time of acquisition, ascending, and bags of equal
\* times keep their relative order; also after a deposit moved older bags
\* from transit onto an exchange that holds newer bags, and after a deposit
\* surplus appended a new bag.
C27_BagsSorted ==
    \A ex \in DOMAIN Self.bags :
        /\ Sorted(Self.bags[ex])
        /\ call.pre # None => EqualTimesKeepOrder(ex)

\* a deposit has put a bag from transit before a newer bag that the exchange
\* held already
C27_Witness ==
    /\ DepositTrade
    /\ \E ex \in DOMAIN Self.bags :
        LET now == Self.bags[ex]
        IN  \E i, j \in 1..Len(now) :
                /\ i < j
                /\ now[i].dtime < now[j].dtime
                /\ \E b \in InTransit(call.pre, call.args.buycur) :
                       b.id = now[i].id
                /\ Position(Get(call.pre.bags, ex, <<>>), now[j].id) > 0

-----------------------------------------------------------------------------
(* Properties of the clean-up after a trade *)

\* an engine holds nothing that says "nothing": no total of 0, no row of
\* totals without entries, no list without bags, no bag without funds
CleanedUp(e) ==
    /\ \A row \in DOMAIN e.totals :
        /\ e.totals[row] # EmptyDict
        /\ \A c \in DOMAIN e.totals[row] : e.totals[row][c] # 0
    /\ \A ex \in DOMAIN e.bags : e.bags[ex] # <<>>
    /\ \A c \in DOMAIN e.in_transit : e.in_transit[c] # <<>>
    /\ \A b \in HeldBags(e) : b.amount # 0

\* C28: clean-up. After every successfully processed trade, totals has no
\* entry equal to 0 and no empty map for an exchange or for 'in_transit',
\* bags has no exchange with an empty list, in_transit has no currency with
\* an empty list, and no stored bag has amount 0.
C28_CleanUp ==
    (call.seq > 0 /\ call.exc = "") => CleanedUp(Self)

-----------------------------------------------------------------------------
(* Properties of fee payments *)

\* the kinds of the payments that are fees
FeeKinds == {"withdrawal fee", "deposit fee", "exchange fee"}

\* the fee payments that the last call added to the ledger
NewFees == SelectSeq(NewEntries, LAMBDA e : e.kind \in FeeKinds)

\* the cost basis of the short-term part of the bags spent in a list of
\* entries
ShortTermCost(entries) ==
    SumOf(SelectSeq(entries, LAMBDA e : e.short_term), "spent_cost")

\* the last call was pay with fee_ratio = 1 and returned
FeePayCall == PayCall /\ call.args.fee_ratio = DOne

\* the last call processed a withdrawal, a deposit or a fee-only trade with
\* a fee and returned
FeeTrade ==
    /\ call.op = "process_trade"
    /\ call.exc = ""
    /\ Intent(call.pre, call.args) \in {"withdraw", "deposit", "fee"}
    /\ NewFees # <<>>

\* C29: every fee payment made with fee_ratio = 1 (withdrawal fee, deposit
\* fee, fee-only trade) adds to the profit of the year of the trade exactly
\* minus the cost basis of the short-term part of the bags drained for the
\* fee, whatever the exchange rate at that time, and yields total proceeds
\* of 0.
C29_FeeLoss ==
    /\ FeePayCall =>
           call.ret = <<DSub(DZero, ShortTermCost(NewEntries)), DZero>>
    /\ FeeTrade =>
           /\ \A i \in 1..Len(NewFees) :
                  /\ NewFees[i].fee_ratio = DOne
                  /\ NewFees[i].proceeds = DZero
                  /\ NewFees[i].ex_rate
                         = get_rate(call.args.dtime, call.args.feecur,
                                    BaseCurrency)
           /\ profit = Put(call.pre.profit, YearOf(call.args.dtime),
                           DSub(Get(call.pre.profit, YearOf(call.args.dtime),
                                    DZero),
                                ShortTermCost(NewFees)))

\* a fee was taken from a bag held for less than a year, at a rate that is
\* not the bag's price: the cost of what was taken is the year's loss
C29_Witness ==
    /\ FeeTrade
    /\ \E j \in 1..Len(NewFees) :
           /\ NewFees[j].short_term
           /\ NewFees[j].spent_cost # DZero
           /\ DMul(NewFees[j].ex_rate, Decimal(NewFees[j].bag_spent))
                  # NewFees[j].spent_cost
    /\ DLt(profit[YearOf(call.args.dtime)],
           Get(call.pre.profit, YearOf(call.args.dtime), DZero))

-----------------------------------------------------------------------------
(* Properties of sales for base currency *)

\* the last call processed, in time order, a sale for base currency of
\* funds that the exchange holds, with no fee or a fee in the currency sold
\* or bought that is less than the whole
SaleForBase ==
    /\ TradeCall("sale")
    /\ call.args.buycur = BaseCurrency
    /\ call.args.feecur \in {call.args.sellcur, call.args.buycur}
    /\ call.args.feecur = call.args.sellcur
           => call.args.feeval < call.args.sellval
    /\ call.args.sellval <= TotalOf(call.pre.totals,
                                    capitalize(call.args.exchange),
                                    call.args.sellcur)

\* buy_amount / sell_amount / (1 - fee_ratio) in exact arithmetic
LocalRate(trade, fee_ratio) ==
    DDiv(Frac(trade.buyval, trade.sellval), DSub(DOne, fee_ratio))

\* C30: for a sale whose buy currency is the base currency, pay is given the
\* trade-local rate buy_amount / sell_amount / (1 - fee_ratio) and the
\* relation is not asked for a rate of the sold currency, so the sale
\* succeeds without any route to base, and its total proceeds equal
\* buy_amount exactly, for every fee ratio in [0, 1) and a fee in the
\* currency sold or bought.
C30_TradeLocalRate ==
    /\ SaleForBase =>
           /\ call.exc = ""
           /\ NewOfKind("sale") # <<>>
           /\ \A i \in 1..Len(NewOfKind("sale")) :
                  NewOfKind("sale")[i].ex_rate
                      = LocalRate(call.args, NewOfKind("sale")[i].fee_ratio)
           /\ SumOf(NewOfKind("sale"), "proceeds")
                  = Decimal(call.args.buyval)
    /\ call.op = "sale" => call.ret[2] = Decimal(call.args.buyval)

-----------------------------------------------------------------------------
(* Properties of the fee of a deposit *)

\* the bags of a currency on an exchange of an engine
OnExchange(e, ex, currency) ==
    {b \in BagsOf([x \in {ex} |-> Get(e.bags, ex, <<>>)]) :
        b.currency = currency}

\* the last call processed a deposit with a fee that the exchange can pay
\* once the deposit is on it
DepositWithFee ==
    /\ TradeCall("deposit")
    /\ call.args.buyval > 0
    /\ call.args.feeval > 0
    /\ call.args.feeval
           <= call.args.buyval
              + TotalOf(call.pre.totals, capitalize(call.args.exchange),
                        call.args.buycur)

\* C31: a deposit's fee is paid only after the deposited bags were moved to
\* the exchange and the exchange's list sorted again, and it is taken from
\* the oldest funds of that currency then on the exchange, which may be
\* funds held there before; the deposit's update of the totals is already
\* applied when the fee is paid.
C31_DepositFeeLast ==
    DepositWithFee =>
        LET ex == capitalize(call.args.exchange)
            cur == call.args.buycur
            fees == NewOfKind("deposit fee")
        IN  /\ call.exc = ""
            /\ fees # <<>>
            /\ NewEntries = fees
            /\ SpentOf(fees) = call.args.feeval
            /\ \A i \in 1..Len(fees) :
                   /\ fees[i].fee_ratio = DOne
                   /\ \A b \in OnExchange(Self, ex, cur) :
                          fees[i].bag_date <= b.dtime
                   /\ \A b \in InTransit(call.pre, cur) :
                          (~\E a \in InTransit(Self, cur) : a.id = b.id)
                              => fees[i].bag_date <= b.dtime
            /\ TotalOf(totals, ex, cur)
                   = TotalOf(call.pre.totals, ex, cur) + call.args.buyval
                         - call.args.feeval

\* a deposit onto an exchange that held nothing has paid its fee from the
\* bags it moved there
C31_Witness ==
    /\ DepositWithFee
    /\ call.exc = ""
    /\ TotalOf(call.pre.totals, capitalize(call.args.exchange),
               call.args.buycur) = 0
    /\ InTransit(call.pre, call.args.buycur) # {}
    /\ OnExchange(Self, capitalize(call.args.exchange), call.args.buycur)
           # {}

-----------------------------------------------------------------------------
(* Properties of the ledger *)

\* the amount that the one pay of the last call was to pay: the amount sold
\* of a sale, the amount of a direct pay, the fee of a withdrawal, a
\* deposit or a fee-only trade; 0 when the call pays nothing
PaidAmount ==
    IF call.op = "pay" THEN call.args.amount
    ELSE IF call.op # "process_trade" THEN 0
    ELSE IF Intent(call.pre, call.args) = "sale" THEN call.args.sellval
    ELSE IF Intent(call.pre, call.args) = "buy" THEN 0
    ELSE call.args.feeval

\* the currency that the pay of the last call spends
PaidCurrency ==
    IF call.op = "pay" THEN call.args.currency
    ELSE IF Intent(call.pre, call.args) = "sale" THEN call.args.sellcur
    ELSE call.args.feecur

\* the bags of the paid currency that the exchange held before the last
\* call, in the order of its list
BagsInLine ==
    SelectSeq(Get(call.pre.bags, capitalize(call.args.exchange), <<>>),
              LAMBDA b : b.currency = PaidCurrency)

\* the pay of the last call walks the list that the exchange had before the
\* call (a deposit puts bags on it before it pays its fee)
PaysFromHeld ==
    call.op = "pay" \/ Intent(call.pre, call.args) # "deposit"

\* the last call does nothing to the bags but pay (a withdrawal moves bags
\* after it paid its fee)
PaysOnly ==
    call.op = "pay" \/ Intent(call.pre, call.args) \in {"sale", "fee"}

\* the entries tell one walk over bags that pays the amount: each entry
\* has what was due before its bag and takes the lesser of that and the
\* bag's amount, and the last one takes all that was still due
OneWalk(entries, amount) ==
    /\ entries[1].to_pay = amount
    /\ \A i \in 1..Len(entries) :
           /\ entries[i].bag_spent
                  = IF entries[i].to_pay <= entries[i].bag_amount
                    THEN entries[i].to_pay ELSE entries[i].bag_amount
           /\ i < Len(entries) =>
                  entries[i + 1].to_pay
                      = entries[i].to_pay - entries[i].bag_spent
    /\ entries[Len(entries)].to_pay = entries[Len(entries)].bag_spent
    /\ SpentOf(entries) = amount

\* C32: the ledger is append-only. Every successful pay appends exactly one
\* entry for each bag it drained, in the order of draining, with bag_amount
\* the bag's amount before the spend, to_pay the amount still due before
\* that bag and bag_spent the lesser of the two, and the amounts spent add
\* up to the amount paid; purchases and moves of bags append nothing, and no
\* operation removes or changes an entry.
C32_LedgerAppendOnly ==
    call.seq > 0 =>
        /\ Len(report) >= Len(call.pre.report)
        /\ SubSeq(report, 1, Len(call.pre.report)) = call.pre.report
        /\ (call.exc = "" /\ call.op \in {"pay", "process_trade"}) =>
               /\ PaidAmount = 0 => NewEntries = <<>>
               /\ PaidAmount > 0 =>
                      /\ NewEntries # <<>>
                      /\ OneWalk(NewEntries, PaidAmount)
                      /\ PaysFromHeld =>
                             /\ Len(NewEntries) <= Len(BagsInLine)
                             /\ \A i \in 1..Len(NewEntries) :
                                    /\ NewEntries[i].bag_amount
                                           = BagsInLine[i].amount
                                    /\ NewEntries[i].bag_date
                                           = BagsInLine[i].dtime
                                    /\ PaysOnly =>
                                         NewEntries[i].bag_spent
                                           = BagsInLine[i].amount
                                             - AmountById(
                                                   Get(bags, capitalize(call.args.exchange), <<>>),
                                                   BagsInLine[i].id)

\* a pay has drained one bag and a part of the next
C32_Witness ==
    /\ call.seq > 0
    /\ call.exc = ""
    /\ call.pre.report # <<>>
    /\ Len(NewEntries) = 2
    /\ NewEntries[1].bag_spent = NewEntries[1].bag_amount
    /\ NewEntries[2].bag_spent < NewEntries[2].bag_amount

-----------------------------------------------------------------------------
(* Properties of the sorted list of trades *)

\* a trade that the sort takes for a deposit
IsDeposit(trade) ==
    trade.buyval > 0 /\ (trade.sellval = 0 \/ trade.sellcur = "")

\* a trade that gives funds away and receives nothing
IsWithdrawal(trade) ==
    trade.sellval > 0 /\ (trade.buyval = 0 \/ trade.buycur = "")

\* C33: after TradeHistory sorted its list, a withdrawal and a deposit with
\* the same timestamp are in the list with the withdrawal before the
\* deposit, whatever the order in which they were imported, and trades with
\* equal sort keys keep the order of their import.
C33_WithdrawalBeforeDeposit ==
    \A i, j \in 1..Len(tlist) :
        /\ (/\ IsWithdrawal(tlist[i])
            /\ IsDeposit(tlist[j])
            /\ tlist[i].dtime = tlist[j].dtime) => i < j
        /\ (/\ i < j
            /\ _trade_sort_key(tlist[i]) = _trade_sort_key(tlist[j]))
               => tlist[i].comment < tlist[j].comment

\* a deposit was imported before the withdrawal of the same time and is
\* after it in the list
C33_Witness ==
    \E i, j \in 1..Len(tlist) :
        /\ i < j
        /\ IsWithdrawal(tlist[i])
        /\ IsDeposit(tlist[j])
        /\ tlist[i].dtime = tlist[j].dtime
        /\ tlist[j].comment < tlist[i].comment

\* C37: the list that TradeHistory's sort produces (deposits are keyed 1 ns
\* after their timestamp) is non-decreasing in each trade's own timestamp,
\* so that feeding a sorted history to the engine in the order of the list
\* never triggers the rejection of a trade out of order.
C37_SortedByTimestamp ==
    /\ \A i, j \in 1..Len(tlist) :
           i < j => tlist[i].dtime <= tlist[j].dtime
    /\ (call.op = "process_trade" /\ call.exc # "") => call.msg # "order"

-----------------------------------------------------------------------------
(* Properties of a rejected trade *)

\* the last call was rejected with a validation error other than the one of
\* a trade out of order
Rejected ==
    /\ call.op = "process_trade"
    /\ call.exc = "ValueError"
    /\ call.msg # "order"

\* last_trade of the example's main after the snapshot was loaded: the
\* number of leading trades of the list dated no later than _last_date,
\* which the loop skips
last_trade ==
    Cardinality({n \in 1..Len(tlist) :
                    \A k \in 1..n : tlist[k].dtime <= last_date})

\* C34: a trade rejected for a validation failure other than its order (a
\* negative amount, an unsupported fee currency, a transfer of the base
\* currency, insufficient funds, a missing rate) leaves last_seen_time at
\* the value it had before that trade, so that the snapshot written on the
\* failure is the state before the failing trade, and resuming from it
\* (skipping the trades dated no later than last_seen_time, as the example
\* does) does not skip the failed trade.
C34_RejectedKeepsLastDate ==
    Rejected =>
        /\ call.saved
        /\ last_date = call.pre.last_date
        /\ last_trade < call.seq

\* the profit of a year, zero for a year the table does not hold yet
ProfitOf(prof, year) == Get(prof, year, DZero)

\* the books as the call before found them: bags, in_transit, totals, the
\* ledger, and each year's profit
BooksUntouched ==
    /\ bags = call.pre.bags
    /\ in_transit = call.pre.in_transit
    /\ totals = call.pre.totals
    /\ report = call.pre.report
    /\ \A year \in 0..MaxTime : ProfitOf(profit, year) = ProfitOf(call.pre.profit, year)

\* C35: trade atomicity: when a step of a trade of several steps fails (the
\* fee payment of a deposit, the rate lookup or the main payment of a sale
\* that already paid a fee in a third currency, the move of a withdrawal
\* that already paid its fee), none of that trade's earlier steps has
\* changed bags, in_transit, totals, profit or the ledger; a failed trade,
\* and the snapshot written for it, never shows a partly applied trade.
C35_TradeAtomic ==
    (call.op = "process_trade" /\ call.exc # "") => BooksUntouched

-----------------------------------------------------------------------------
(* Properties of calls within the funds held *)

\* what the exchange of the last call held of a currency when the call was
\* made
HeldBefore(currency) ==
    Get(Get(call.pre.totals, capitalize(call.args.exchange), EmptyDict),
        currency, 0)

\* the last call was a pay of no more than the exchange held
PayWithinTotal ==
    /\ call.op = "pay"
    /\ 0 < call.args.amount
    /\ call.args.amount <= HeldBefore(call.args.currency)

\* the last call was a withdrawal of no more than the exchange held, with a
\* fee of no more than the withdrawn amount
WithdrawWithinTotal ==
    \/ /\ call.op = "withdraw"
       /\ 0 <= call.args.fee
       /\ call.args.fee <= call.args.amount
       /\ call.args.amount <= HeldBefore(call.args.currency)
    \/ /\ call.op = "process_trade"
       /\ call.args.kind = "Withdrawal"
       /\ 0 <= call.args.feeval
       /\ call.args.feeval <= call.args.sellval
       /\ call.args.sellval <= HeldBefore(call.args.sellcur)

\* the errors of a walk that left the lists or the maps
WalkErrors == {"IndexError", "KeyError", "Exception"}

\* C36: from every state reached by the engine's own operations, every pay
\* with 0 < amount <= totals[exchange][currency] and every withdrawal with
\* 0 <= fee <= amount <= totals[exchange][currency] (fee = amount and
\* amount = the whole total included) runs to completion: the walk over the
\* bags ends, never indexes past the end of a list or into a deleted map
\* entry, and the error 'no bags left with the requested currency' is never
\* raised.
C36_WithinTotalCompletes ==
    (PayWithinTotal \/ WithdrawWithinTotal) => call.exc \notin WalkErrors

-----------------------------------------------------------------------------
(* Properties of the cost basis *)

\* the cost of the bags of a currency in a list that were created after the
\* bag with the given id
RECURSIVE CostFrom(_, _, _)
CostFrom(lst, currency, id) ==
    IF lst = <<>> THEN DZero
    ELSE DAdd(IF Head(lst).currency = currency /\ Head(lst).id > id
              THEN Head(lst).cost ELSE DZero,
              CostFrom(Tail(lst), currency, id))

\* the same over the lists of a map, for the keys given
RECURSIVE CostOver(_, _, _, _)
CostOver(d, keys, currency, id) ==
    IF keys = {} THEN DZero
    ELSE LET k == CHOOSE x \in keys : TRUE
         IN  DAdd(CostFrom(d[k], currency, id),
                  CostOver(d, keys \ {k}, currency, id))

\* the sum of cost over all bags of a currency that an engine holds, on
\* every exchange and in transit
CostSum(e, currency) ==
    DAdd(CostOver(e.bags, DOMAIN e.bags, currency, 0),
         CostOver(e.in_transit, DOMAIN e.in_transit, currency, 0))

\* the cost of the bags that the last call purchased: a purchase and a sale
\* for another currency make their bag with buy_with_base_currency and
\* split none (the bag that a deposit makes for a surplus has cost 0)
BoughtCost(currency) ==
    IF TradeCall("buy") \/ TradeCall("sale")
    THEN CostOver(bags, DOMAIN bags, currency, call.pre.num_created_bags)
    ELSE DZero

\* the spent_cost of the payments of a currency that the last call added to
\* the ledger
SpentCost(currency) ==
    SumOf(SelectSeq(NewEntries, LAMBDA e : e.currency = currency),
          "spent_cost")

-----------------------------------------------------------------------------
(* Properties of the frame of pay *)

\* the last call paid from an exchange and did nothing else to the bags: a
\* call of pay, or process_trade of a fee-only trade or of a sale for the
\* base currency
PaysFromExchange ==
    \/ call.op = "pay"
    \/ TradeCall("fee")
    \/ TradeCall("sale") /\ call.args.buycur = call.pre.currency

\* the entries of a map other than the one of key are those of the map
\* before
OthersKept(before, after, key) ==
    \A x \in (DOMAIN before \cup DOMAIN after) \ {key} :
        /\ x \in DOMAIN before
        /\ x \in DOMAIN after
        /\ after[x] = before[x]

\* C39: pay on exchange e changes only the bags and the totals of e (and
\* the ledger, profit and last_seen_time): the bags and totals of every
\* other exchange and all bags and totals in transit are unchanged, so that
\* funds that were withdrawn cannot be spent until a deposit has put them
\* on an exchange.
C39_PayFrame ==
    PaysFromExchange =>
        /\ in_transit = call.pre.in_transit
        /\ OthersKept(call.pre.bags, bags, capitalize(call.args.exchange))
        /\ OthersKept(call.pre.totals, totals,
                      capitalize(call.args.exchange))
        /\ (call.op = "pay" /\ call.args.amount > HeldBefore(call.args.currency))
               => (call.exc # "" /\ bags = call.pre.bags)

\* a payment on one exchange returned while another exchange held bags
C39_Witness ==
    /\ PaysFromExchange
    /\ call.exc = ""
    /\ NewEntries # <<>>
    /\ bags # call.pre.bags
    /\ \E x \in DOMAIN bags :
        /\ x # capitalize(call.args.exchange)
        /\ bags[x] # <<>>

====
